---- MODULE Spec2Model ----
(***************************************************************************)
(* AppLytics: the page-fit convergence loop of the modify-resume route.    *)
(*                                                                         *)
(* One run of POST (src/app/api/modify-resume/route.ts) is a sequential    *)
(* async handler.  The model has one action per awaited external call      *)
(* (oracle, compiler, PDF measurement tools); every action also carries    *)
(* the synchronous code that follows the call up to the next await.        *)
(* External tools and the oracle are nondeterministic: each call either    *)
(* returns one of the enumerated answers or raises.                        *)
(***************************************************************************)
EXTENDS Integers, Sequences, FiniteSets, TLC

VARIABLES
    pc,                 \* position of the handler (the await it is parked on)
    req,                \* the request body fields the loop reads
    currentLatex,       \* let currentLatex
    currentSummary,     \* let currentSummary
    pageCount,          \* let pageCount
    attempt,            \* let attempt
    lastPdfPath,        \* let lastPdfPath
    compileResult,      \* let compileResult (of the current outer attempt)
    compileFixAttempt,  \* let compileFixAttempt
    latexBeforeFixLoop, \* const latexBeforeFixLoop
    pageFill,           \* const pageFill.blankPercentage
    expandedLatex,      \* const expandedLatex
    expandedResult,     \* const expandedCompileResult
    outcome,            \* the terminal SSE event, once sent
    calls,              \* history: number of external calls made, by kind
    hist,               \* history: what happened in the run (for the properties)
    fnInput,            \* argument of the library function under study
    fnResult,           \* ... and what it returned
    tmp                 \* os.tmpdir() and the clock, shared by concurrent runs

\* the state of one run of the POST handler
loopVars == <<pc, req, currentLatex, currentSummary, pageCount, attempt, lastPdfPath,
              compileResult, compileFixAttempt, latexBeforeFixLoop, pageFill,
              expandedLatex, expandedResult, outcome, calls, hist>>

\* the state of the library functions studied on their own
fnVars == <<fnInput, fnResult, tmp>>

vars == <<loopVars, fnVars>>

-----------------------------------------------------------------------------
(* Policy constants of route.ts *)

MAX_RETRY_ATTEMPTS == 3

MAX_COMPILE_FIX_ATTEMPTS == 2

UNDERFLOW_THRESHOLD == 10

SMALL_OVERFLOW_THRESHOLD == 10

(* Bounds of the model *)

\* number of distinct document texts the oracle and the user can produce
NumDocs == 4

\* largest page count the metadata tool reports
MaxPages == 3

\* validator study: largest text length, \\section{ count and \\item count
MaxLen == 5

MaxSections == 2

MaxItems == 7

\* decoder study: longest document the oracle means to send, longest reply
\* that is not a JSON envelope
MaxDocLen == 3

MaxRawLen == 3

\* overflow study: most lines of a page text, most words on a line
MaxTextLines == 2

MaxWordsPerLine == 30

\* page fill study: most word boxes on page 1, largest bottom edge of a box
MaxBoxes == 2

MaxY == 12
MaxContentLen == 3

\* temporary path study: number of concurrent runs, last millisecond of the clock
NumRuns == 2

MaxClock == 2

\* audit log study: entries a log file keeps (500 and 100 in logger.ts)
MaxLogEntries == 3

-----------------------------------------------------------------------------
(* Documents.  A document text is represented by what the loop and the     *)
(* validator read of it: its identity (string equality), its length, the   *)
(* number of \section{ and \item matches and the two envelope markers.     *)

DocOf(i) ==
    CASE i = 1 -> [id |-> 1, len |-> 100, sections |-> 4, items |-> 10,
                   hasBegin |-> TRUE, hasEnd |-> TRUE]
      [] i = 2 -> [id |-> 2, len |-> 90, sections |-> 4, items |-> 8,
                   hasBegin |-> TRUE, hasEnd |-> TRUE]
      [] i = 3 -> [id |-> 3, len |-> 50, sections |-> 1, items |-> 2,
                   hasBegin |-> TRUE, hasEnd |-> TRUE]
      [] i = 4 -> [id |-> 4, len |-> 95, sections |-> 4, items |-> 10,
                   hasBegin |-> TRUE, hasEnd |-> FALSE]
      [] i = 5 -> [id |-> 5, len |-> 80, sections |-> 1, items |-> 10,
                   hasBegin |-> TRUE, hasEnd |-> TRUE]
      [] OTHER -> [id |-> i, len |-> 60 + i, sections |-> 4, items |-> 3,
                   hasBegin |-> TRUE, hasEnd |-> TRUE]

Docs == {DocOf(i) : i \in 1..NumDocs}

\* let currentLatex = ''
EmptyDoc == [id |-> 0, len |-> 0, sections |-> 0, items |-> 0,
             hasBegin |-> FALSE, hasEnd |-> FALSE]

NoPdf == [src |-> 0, pages |-> 0]

\* pdfPath: '' (route.ts:189, 450)
NoPath == [prefix |-> "", attempt |-> 0, src |-> 0]

\* messages of a rejected aiClient.chat promise
OracleErrors == {"quota exceeded", "network timeout"}

\* compileResult.error of a failed compile (tectonic exit / timeout, no PDF)
CompileErrors == {"tectonic failed"}

\* parsed.summary of the drafting reply, "default" being the decoder's fallback
Summaries == {"S1", "default"}

\* pageFill.blankPercentage values the page-fill tool reports
BlankPercentages == {10, 11}

\* overflowAnalysis.overflowPercentage values the overflow analysis reports
OverflowPercentages == {10, 11}

-----------------------------------------------------------------------------
(* validateFixedLatex(original, fixed), on the integers:                   *)
(*   fixed.length / original.length < 0.6   <=>  10*fixed < 6*original     *)
(*   fixedSections < originalSections * 0.5 <=>  2*fixed < original        *)
(*   fixedItems < originalItems * 0.4       <=>  5*fixed < 2*original      *)
(* (for original.length = 0 the ratio is Infinity or NaN, never < 0.6).    *)

\* variants of the validator (the item check always on; the envelope check
\* first; no envelope check)
validateFixedLatex_ItemsAlways(original, fixed) ==
    IF 10 * fixed.len < 6 * original.len
    THEN [isValid |-> FALSE, reason |-> "length"]
    ELSE IF original.sections > 0 /\ 2 * fixed.sections < original.sections
    THEN [isValid |-> FALSE, reason |-> "sections"]
    ELSE IF 5 * fixed.items < 2 * original.items
    THEN [isValid |-> FALSE, reason |-> "items"]
    ELSE IF ~fixed.hasBegin \/ ~fixed.hasEnd
    THEN [isValid |-> FALSE, reason |-> "envelope"]
    ELSE [isValid |-> TRUE, reason |-> "none"]

validateFixedLatex_EnvelopeFirst(original, fixed) ==
    IF ~fixed.hasBegin \/ ~fixed.hasEnd
    THEN [isValid |-> FALSE, reason |-> "envelope"]
    ELSE IF 10 * fixed.len < 6 * original.len
    THEN [isValid |-> FALSE, reason |-> "length"]
    ELSE IF original.sections > 0 /\ 2 * fixed.sections < original.sections
    THEN [isValid |-> FALSE, reason |-> "sections"]
    ELSE IF original.items > 5 /\ 5 * fixed.items < 2 * original.items
    THEN [isValid |-> FALSE, reason |-> "items"]
    ELSE [isValid |-> TRUE, reason |-> "none"]

validateFixedLatex_NoEnvelope(original, fixed) ==
    IF 10 * fixed.len < 6 * original.len
    THEN [isValid |-> FALSE, reason |-> "length"]
    ELSE IF original.sections > 0 /\ 2 * fixed.sections < original.sections
    THEN [isValid |-> FALSE, reason |-> "sections"]
    ELSE IF original.items > 5 /\ 5 * fixed.items < 2 * original.items
    THEN [isValid |-> FALSE, reason |-> "items"]
    ELSE [isValid |-> TRUE, reason |-> "none"]

validateFixedLatex(original, fixed) ==
    IF 10 * fixed.len < 6 * original.len
    THEN [isValid |-> FALSE, reason |-> "length"]
    ELSE IF original.sections > 0 /\ 2 * fixed.sections < original.sections
    THEN [isValid |-> FALSE, reason |-> "sections"]
    ELSE IF original.items > 5 /\ 5 * fixed.items < 2 * original.items
    THEN [isValid |-> FALSE, reason |-> "items"]
    ELSE IF ~fixed.hasBegin \/ ~fixed.hasEnd
    THEN [isValid |-> FALSE, reason |-> "envelope"]
    ELSE [isValid |-> TRUE, reason |-> "none"]

-----------------------------------------------------------------------------
(* External collaborators *)

\* compileLatex(latexContent): never raises; success carries the PDF buffer
\* (identified by the text it was compiled from and its number of pages)
compileLatex(latex) ==
    {[success |-> TRUE, pdf |-> [src |-> latex.id, pages |-> p], error |-> "none"] :
        p \in 1..MaxPages}
    \cup {[success |-> FALSE, pdf |-> NoPdf, error |-> e] : e \in CompileErrors}

NoResult == [success |-> FALSE, pdf |-> NoPdf, error |-> "none"]

\* saveTempPdf(pdfBuffer, prefix, attempt): the path of the saved copy
saveTempPdf(pdf, prefix, att) == [prefix |-> prefix, attempt |-> att, src |-> pdf.src]

-----------------------------------------------------------------------------
(* SSE events (type SSEEvent); only the terminal ones are kept *)

NoMessage == [prefix |-> "", text |-> ""]

NoSummary == [text |-> "", expanded |-> FALSE, fixAttempts |-> 0, error |-> ""]

NoEvent ==
    [type |-> "none", latex |-> EmptyDoc, summary |-> NoSummary, pageCount |-> 0,
     overflowPercentage |-> 0, attempts |-> 0, pdfPath |-> NoPath, message |-> NoMessage]

CompleteEvent(latex, summary, pages, att, path) ==
    [NoEvent EXCEPT !.type = "complete", !.latex = latex, !.summary = summary,
                    !.pageCount = pages, !.attempts = att, !.pdfPath = path]

ChoiceEvent(latex, summary, pages, pct, att, path) ==
    [NoEvent EXCEPT !.type = "overflow_choice", !.latex = latex, !.summary = summary,
                    !.pageCount = pages, !.overflowPercentage = pct,
                    !.attempts = att, !.pdfPath = path]

\* mutant: the error event carries a generic text instead of error.message
ErrorEvent_Generic(prefix, text) ==
    [NoEvent EXCEPT !.type = "error",
                    !.message = [prefix |-> prefix, text |-> "Unknown error"]]

ErrorEvent(prefix, text) ==
    [NoEvent EXCEPT !.type = "error", !.message = [prefix |-> prefix, text |-> text]]

\* parsed.summary as currentSummary
AISummary(s) == [NoSummary EXCEPT !.text = s]

\* currentSummary + '\n• Expanded to fill page'
ExpandedSummary(s) == [s EXCEPT !.expanded = TRUE]

\* `• LaTeX compilation failed after ${n} fix attempts\n• Error: ...\n• Please review and fix the code manually`
CompileFailedSummary(n, err) ==
    [text |-> "compile failed, review manually", expanded |-> FALSE,
     fixAttempts |-> n, error |-> err]

-----------------------------------------------------------------------------
(* Decisions of the loop *)

\* while (attempt < MAX_RETRY_ATTEMPTS)
RetryLoopContinues(att) == att < MAX_RETRY_ATTEMPTS

\* mutant: a failed compile is not handed to the fix sub-loop
FixLoopContinues_Never(result, fixAttempt) == FALSE

\* mutant: the fix sub-loop does not stop on a successful recompile
FixLoopContinues_IgnoreSuccess(result, fixAttempt) ==
    fixAttempt < MAX_COMPILE_FIX_ATTEMPTS

\* mutant: the fix sub-loop allows one request more than its budget
FixLoopContinues_OneMore(result, fixAttempt) ==
    ~result.success /\ fixAttempt <= MAX_COMPILE_FIX_ATTEMPTS

\* while (!compileResult.success && compileFixAttempt < MAX_COMPILE_FIX_ATTEMPTS)
FixLoopContinues(result, fixAttempt) ==
    ~result.success /\ fixAttempt < MAX_COMPILE_FIX_ATTEMPTS

\* const latexToReturn = currentLatex === latexBeforeFixLoop ? currentLatex : latexBeforeFixLoop
LatexToReturn(current, beforeFixLoop) ==
    IF current = beforeFixLoop THEN current ELSE beforeFixLoop

\* mutant: the working document is not restored on a rejection
RestoreOnReject_Keep(current, beforeFixLoop) == current

\* the rejected candidate is dropped: currentLatex = latexBeforeFixLoop; break
RestoreOnReject(current, beforeFixLoop) == beforeFixLoop

\* mutant: the one-page test compares with the wrong constant
FitsOnePage_Never(pages) == pages = 0

\* if (pageCount === 1)
FitsOnePage(pages) == pages = 1

\* mutant: the expansion is no longer limited to the first outer attempt
ShouldExpand_AnyAttempt(blankPercentage, att) ==
    blankPercentage > UNDERFLOW_THRESHOLD

\* if (pageFill.blankPercentage > UNDERFLOW_THRESHOLD && attempt === 1)
ShouldExpand(blankPercentage, att) ==
    blankPercentage > UNDERFLOW_THRESHOLD /\ att = 1

\* mutant: an expanded candidate is adopted whatever its page count
AcceptExpanded_Any(expandedPageCount) == expandedPageCount >= 1

\* if (expandedPageCount === 1)
AcceptExpanded(expandedPageCount) == expandedPageCount = 1

\* mutant: the retry budget is tested one attempt too late
RetriesExhausted_Late(att) == att > MAX_RETRY_ATTEMPTS

\* mutant: the last outer attempt goes on to condense like the others
RetriesExhausted_Never(att) == FALSE

\* mutant: the retry budget is cut one attempt short
RetriesExhausted_Early(att) == att >= MAX_RETRY_ATTEMPTS - 1

\* if (attempt >= MAX_RETRY_ATTEMPTS)
RetriesExhausted(att) == att >= MAX_RETRY_ATTEMPTS

\* mutant: the user is asked on every outer attempt
SmallOverflowChoice_AnyAttempt(att, overflowPercentage, forceCondense) ==
    overflowPercentage <= SMALL_OVERFLOW_THRESHOLD /\ ~forceCondense

\* mutant: the threshold itself no longer counts as a small overflow
SmallOverflowChoice_Strict(att, overflowPercentage, forceCondense) ==
    att = 1 /\ overflowPercentage < SMALL_OVERFLOW_THRESHOLD /\ ~forceCondense

\* if (attempt === 1 && overflowPercentage <= SMALL_OVERFLOW_THRESHOLD && !forceCondense)
SmallOverflowChoice(att, overflowPercentage, forceCondense) ==
    att = 1 /\ overflowPercentage <= SMALL_OVERFLOW_THRESHOLD /\ ~forceCondense


\* error.message of a rejected measurement call, by tool
ToolErrors(tool) ==
    IF tool = "pagecount"
    THEN {"Could not parse page count from pdfinfo output", "Command failed"}
    ELSE {"Command failed"}

-----------------------------------------------------------------------------
(* Initial state: the request has been read and validated, the AI client   *)
(* is created and the locals are initialised (route.ts:183-189).           *)

NoCalls ==
    [draft |-> 0, fix |-> 0, expand |-> 0, condense |-> 0, compile |-> 0,
     raster |-> 0, overflow |-> 0, pagefill |-> 0, pagecount |-> 0, save |-> 0]

NoHist ==
    [measured |-> 0,             \* number of page counts taken of the working document
     lastMeasured |-> 0,         \* ... the last of them
     onePage |-> FALSE,          \* ... one of them was 1
     callsAtOnePage |-> NoCalls, \* the calls made up to that measurement
     rejected |-> FALSE,         \* the validator rejected a fix candidate
     rejectedCand |-> EmptyDoc,  \* ... this one
     callsAtReject |-> NoCalls,  \* the calls made up to that rejection
     lastValid |-> EmptyDoc,     \* last fix candidate the validator passed, this outer attempt
     oracleFailed |-> "none",    \* kind of the oracle call that raised
     oracleError |-> "",         \* ... and its message
     toolFailed |-> "none",      \* measurement call that raised to the outer catch
     expansion |-> "none",       \* fate of the expansion request
     preExpansion |-> EmptyDoc,  \* working document when the expansion was requested
     expandedPages |-> 0,        \* page count measured of the expanded candidate
     overflowFirst |-> 0 - 1,    \* overflowPercentage analysed on outer attempt 1
     abandoned |-> FALSE,        \* the client has gone away
     callsAtAbandon |-> 0,       \* oracle and compile calls issued up to then
     fixReference |-> EmptyDoc]  \* reference document given to the last fix request

\* the request body: an initial request carries no originalResume, a follow-up
\* carries the client's original (possibly the empty string)
\* export const models (the provider of each registered model id)
models ==
    [id \in {"gpt-5.2-instant", "gpt-5.2-reasoning-medium", "gpt-5-mini",
             "gemini-3-flash-preview", "gemini-3-pro-preview"} |->
        IF id \in {"gemini-3-flash-preview", "gemini-3-pro-preview"}
        THEN "google" ELSE "openai"]

\* getModelById(id): some provider that is not one stands for undefined
getModelById(id) == IF id \in DOMAIN models THEN models[id] ELSE "undefined"

\* the body of a request; an absent or empty field is ""
Requests ==
    {r \in [resume : {EmptyDoc, DocOf(1)}, originalResume : {EmptyDoc, DocOf(2)},
            isFollowUp : BOOLEAN, forceCondense : BOOLEAN,
            jobOffer : {"", "job"}, followUpInstruction : {"", "instruction"},
            apiKey : {"", "key"}, provider : {"", "openai", "google"},
            model : {"", "gpt-5-mini", "gemini-3-flash-preview", "gpt-4"}] :
        ~r.isFollowUp => r.originalResume = EmptyDoc}

\* no validation message
NoError == ""

\* the validation with the check of the model against the provider left out
requestError_AnyModel(r) ==
    IF r.resume = EmptyDoc THEN "Resume is required"
    ELSE IF ~r.isFollowUp /\ r.jobOffer = "" THEN "Job offer is required"
    ELSE IF r.isFollowUp /\ r.followUpInstruction = ""
        THEN "Follow-up instruction is required"
    ELSE IF r.apiKey = "" THEN "API key is required"
    ELSE IF r.provider = "" \/ r.model = "" THEN "Provider and model are required"
    ELSE NoError

\* // Validation: the message of the first check that fails, in the order
\* of the code
requestError(r) ==
    IF r.resume = EmptyDoc THEN "Resume is required"
    ELSE IF ~r.isFollowUp /\ r.jobOffer = "" THEN "Job offer is required"
    ELSE IF r.isFollowUp /\ r.followUpInstruction = ""
        THEN "Follow-up instruction is required"
    ELSE IF r.apiKey = "" THEN "API key is required"
    ELSE IF r.provider = "" \/ r.model = "" THEN "Provider and model are required"
    ELSE IF getModelById(r.model) # r.provider
        THEN "Invalid model for the selected provider"
    ELSE NoError

\* nothing passed to, nothing returned by, a library function studied alone
NoInput == [fn |-> "none"]

NoOutput == [fn |-> "none"]

\* an empty temporary directory
NoTmp == [now |-> 0]

Init ==
    /\ pc = "validate"
    /\ req \in Requests
    /\ currentLatex = EmptyDoc
    /\ currentSummary = NoSummary
    /\ pageCount = 0
    /\ attempt = 0
    /\ lastPdfPath = NoPath
    /\ compileResult = NoResult
    /\ compileFixAttempt = 0
    /\ latexBeforeFixLoop = EmptyDoc
    /\ pageFill = 0
    /\ expandedLatex = EmptyDoc
    /\ expandedResult = NoResult
    /\ outcome = NoEvent
    /\ calls = NoCalls
    /\ hist = NoHist
    /\ fnInput = NoInput
    /\ fnResult = NoOutput
    /\ tmp = NoTmp

\* mutant: the reference follows the working document
referenceOriginalResume_Working == currentLatex

\* const referenceOriginalResume = originalResume || resume
referenceOriginalResume ==
    IF req.originalResume # EmptyDoc THEN req.originalResume ELSE req.resume

Called(kind) == [calls EXCEPT ![kind] = @ + 1]

\* mutant: the terminal event is sent, but the handler does not return
Finish_NoReturn(event) ==
    /\ outcome' = event
    /\ UNCHANGED pc

\* sendSSE(controller, <terminal event>); controller.close(); return
Finish(event) ==
    /\ outcome' = event
    /\ pc' = "done"

\* mutant: a measurement that raises is answered with a default of one page
Unhandled_Default(tool, text) ==
    /\ Finish(CompleteEvent(currentLatex, currentSummary, 1, attempt, lastPdfPath))
    /\ hist' = [hist EXCEPT !.toolFailed = tool]

\* the outer catch: sendSSE({type: 'error', message: errorMessage}); close
Unhandled(tool, text) ==
    /\ Finish(ErrorEvent("", text))
    /\ hist' = [hist EXCEPT !.toolFailed = tool]

-----------------------------------------------------------------------------
(* Validation of the request body, before the AI client is created: the    *)
(* first failing check sends its error event and closes the stream.        *)

ValidateRequest ==
    /\ pc = "validate"
    /\ IF requestError(req) # NoError
       THEN Finish(ErrorEvent("", requestError(req)))
       ELSE pc' = "draft" /\ UNCHANGED outcome
    /\ UNCHANGED <<req, currentLatex, currentSummary, pageCount, attempt, lastPdfPath,
                   compileResult, compileFixAttempt, latexBeforeFixLoop, pageFill,
                   expandedLatex, expandedResult, calls, hist>>
    /\ UNCHANGED fnVars

-----------------------------------------------------------------------------
(* Drafting: aiClient.chat(initialMessages | followUpMessages), then       *)
(* parseAIResponse; an oracle failure ends the run.                        *)

Draft ==
    /\ pc = "draft"
    /\ calls' = Called("draft")
    /\ \/ \E d \in Docs, s \in Summaries :
            /\ currentLatex' = d
            /\ currentSummary' = AISummary(s)
            /\ pc' = "attempt"
            /\ UNCHANGED <<outcome, hist>>
       \/ \E e \in OracleErrors :
            /\ Finish(ErrorEvent("AI Error: ", e))
            /\ hist' = [hist EXCEPT !.oracleFailed = "draft", !.oracleError = e]
            /\ UNCHANGED <<currentLatex, currentSummary>>
    /\ UNCHANGED <<req, pageCount, attempt, lastPdfPath, compileResult,
                   compileFixAttempt, latexBeforeFixLoop, pageFill, expandedLatex,
                   expandedResult>>
    /\ UNCHANGED fnVars

(* Head of the retry loop: attempt++, compileLatex(currentLatex), then the *)
(* initialisation of the fix sub-loop.                                     *)

StartAttempt ==
    /\ pc = "attempt"
    /\ attempt' = attempt + 1
    /\ calls' = Called("compile")
    /\ \E r \in compileLatex(currentLatex) :
            /\ compileResult' = r
            /\ pc' = IF FixLoopContinues(r, 0) THEN "fix_oracle" ELSE "post_fix"
    /\ compileFixAttempt' = 0
    /\ latexBeforeFixLoop' = currentLatex
    /\ UNCHANGED hist
    /\ UNCHANGED <<req, currentLatex, currentSummary, pageCount, lastPdfPath, pageFill,
                   expandedLatex, expandedResult, outcome>>
    /\ UNCHANGED fnVars

(* One turn of the fix sub-loop up to the recompile: the fix request, the  *)
(* validation of the candidate against the pre-fix snapshot.               *)

FixOracle ==
    /\ pc = "fix_oracle"
    /\ compileFixAttempt' = compileFixAttempt + 1
    /\ calls' = Called("fix")
    /\ \/ \E fixedLatex \in Docs :
            IF validateFixedLatex(latexBeforeFixLoop, fixedLatex).isValid
            THEN /\ currentLatex' = fixedLatex
                 /\ pc' = "fix_compile"
                 /\ hist' = [hist EXCEPT !.lastValid = fixedLatex,
                                         !.fixReference = referenceOriginalResume]
                 /\ UNCHANGED outcome
            ELSE /\ currentLatex' = RestoreOnReject(currentLatex, latexBeforeFixLoop)
                 /\ pc' = "post_fix"
                 /\ hist' = [hist EXCEPT !.rejected = TRUE, !.rejectedCand = fixedLatex,
                                         !.callsAtReject = calls',
                                         !.fixReference = referenceOriginalResume]
                 /\ UNCHANGED outcome
       \/ \E e \in OracleErrors :
            /\ Finish(ErrorEvent("AI Error while fixing LaTeX: ", e))
            /\ hist' = [hist EXCEPT !.oracleFailed = "fix", !.oracleError = e,
                                    !.fixReference = referenceOriginalResume]
            /\ UNCHANGED currentLatex
    /\ UNCHANGED <<req, currentSummary, pageCount, attempt, lastPdfPath, compileResult,
                   latexBeforeFixLoop, pageFill, expandedLatex, expandedResult>>
    /\ UNCHANGED fnVars

(* The recompile of an adopted fix candidate, then the loop condition.     *)

FixCompile ==
    /\ pc = "fix_compile"
    /\ calls' = Called("compile")
    /\ \E r \in compileLatex(currentLatex) :
            /\ compileResult' = r
            /\ pc' = IF FixLoopContinues(r, compileFixAttempt) THEN "fix_oracle"
                                                                ELSE "post_fix"
    /\ UNCHANGED <<req, currentLatex, currentSummary, pageCount, attempt, lastPdfPath,
                   compileFixAttempt, latexBeforeFixLoop, pageFill, expandedLatex,
                   expandedResult, outcome, hist>>
    /\ UNCHANGED fnVars

(* After the fix sub-loop, compile still failing: the terminal complete    *)
(* event with pageCount 0.                                                 *)

CompileFailed ==
    /\ pc = "post_fix"
    /\ ~compileResult.success
    /\ Finish(CompleteEvent(LatexToReturn(currentLatex, latexBeforeFixLoop),
                            CompileFailedSummary(compileFixAttempt, compileResult.error),
                            0, attempt, NoPath))
    /\ UNCHANGED <<req, currentLatex, currentSummary, pageCount, attempt, lastPdfPath,
                   compileResult, compileFixAttempt, latexBeforeFixLoop, pageFill,
                   expandedLatex, expandedResult, calls, hist>>
    /\ UNCHANGED fnVars

(* Compile succeeded: saveTempPdf(compileResult.pdfBuffer, 'resume', attempt) *)

SavePdf ==
    /\ pc = "post_fix"
    /\ compileResult.success
    /\ calls' = Called("save")
    /\ \/ /\ lastPdfPath' = saveTempPdf(compileResult.pdf, "resume", attempt)
          /\ pc' = "page_count"
          /\ UNCHANGED <<outcome, hist>>
       \/ \E e \in ToolErrors("save") :
            /\ Unhandled("save", e)
            /\ UNCHANGED lastPdfPath
    /\ UNCHANGED <<req, currentLatex, currentSummary, pageCount, attempt, compileResult,
                   compileFixAttempt, latexBeforeFixLoop, pageFill, expandedLatex,
                   expandedResult>>
    /\ UNCHANGED fnVars

(* pageCount = await getPageCount(compileResult.pdfBuffer), then the       *)
(* branch on it: one page, retries exhausted, or overflow remediation.     *)

GetPageCount ==
    /\ pc = "page_count"
    /\ calls' = Called("pagecount")
    /\ \/ /\ pageCount' = compileResult.pdf.pages
          /\ hist' = [hist EXCEPT !.measured = @ + 1,
                                  !.lastMeasured = compileResult.pdf.pages,
                                  !.onePage = (compileResult.pdf.pages = 1),
                                  !.callsAtOnePage =
                                      IF compileResult.pdf.pages = 1 THEN calls' ELSE @]
          /\ IF FitsOnePage(pageCount')
             THEN pc' = "page_fill" /\ UNCHANGED outcome
             ELSE IF RetriesExhausted(attempt)
             THEN Finish(CompleteEvent(currentLatex, currentSummary, pageCount',
                                       attempt, lastPdfPath))
             ELSE pc' = "overflow" /\ UNCHANGED outcome
       \/ \E e \in ToolErrors("pagecount") :
            /\ Unhandled("pagecount", e)
            /\ UNCHANGED pageCount
    /\ UNCHANGED <<req, currentLatex, currentSummary, attempt, lastPdfPath, compileResult,
                   compileFixAttempt, latexBeforeFixLoop, pageFill, expandedLatex,
                   expandedResult>>
    /\ UNCHANGED fnVars

(* One page: analyzePageFill(compileResult.pdfBuffer), then either the     *)
(* expansion branch or the complete event.                                 *)

AnalyzePageFill ==
    /\ pc = "page_fill"
    /\ calls' = Called("pagefill")
    /\ \/ \E b \in BlankPercentages :
            /\ pageFill' = b
            /\ IF ShouldExpand(b, attempt)
               THEN pc' = "expand_raster" /\ UNCHANGED outcome
               ELSE Finish(CompleteEvent(currentLatex, currentSummary, 1, attempt,
                                         lastPdfPath))
            /\ UNCHANGED hist
       \/ \E e \in ToolErrors("pagefill") :
            /\ Unhandled("pagefill", e)
            /\ UNCHANGED pageFill
    /\ UNCHANGED <<req, currentLatex, currentSummary, pageCount, attempt, lastPdfPath,
                   compileResult, compileFixAttempt, latexBeforeFixLoop, expandedLatex,
                   expandedResult>>
    /\ UNCHANGED fnVars

(* Expansion: pdfToImages(compileResult.pdfBuffer), outside the try block  *)

ExpandRaster ==
    /\ pc = "expand_raster"
    /\ calls' = Called("raster")
    /\ \/ pc' = "expand_oracle" /\ UNCHANGED <<outcome, hist>>
       \/ \E e \in ToolErrors("raster") : Unhandled("raster", e)
    /\ UNCHANGED <<req, currentLatex, currentSummary, pageCount, attempt, lastPdfPath,
                   compileResult, compileFixAttempt, latexBeforeFixLoop, pageFill,
                   expandedLatex, expandedResult>>
    /\ UNCHANGED fnVars

\* mutant: the return after the expansion block hands out the candidate
CompleteOnePage_Candidate(latex) ==
    Finish(CompleteEvent(expandedLatex, currentSummary, 1, attempt, lastPdfPath))

\* the return after the expansion block: the current (possibly unexpanded) version
CompleteOnePage(latex) ==
    Finish(CompleteEvent(latex, currentSummary, 1, attempt, lastPdfPath))

(* aiClient.chat(expandMessages) inside the try block: a failure is caught *)
(* and the run completes with the current version.                         *)

ExpandOracle ==
    /\ pc = "expand_oracle"
    /\ calls' = Called("expand")
    /\ \/ \E d \in Docs :
            /\ expandedLatex' = d
            /\ pc' = "expand_compile"
            /\ hist' = [hist EXCEPT !.expansion = "requested",
                                    !.preExpansion = currentLatex]
            /\ UNCHANGED outcome
       \/ \E e \in OracleErrors :
            /\ CompleteOnePage(currentLatex)
            /\ hist' = [hist EXCEPT !.expansion = "oracle_failed",
                                    !.preExpansion = currentLatex,
                                    !.oracleFailed = "expand", !.oracleError = e]
            /\ UNCHANGED expandedLatex
    /\ UNCHANGED <<req, currentLatex, currentSummary, pageCount, attempt, lastPdfPath,
                   compileResult, compileFixAttempt, latexBeforeFixLoop, pageFill,
                   expandedResult>>
    /\ UNCHANGED fnVars

(* expandedCompileResult = await compileLatex(expandedLatex) *)

ExpandCompile ==
    /\ pc = "expand_compile"
    /\ calls' = Called("compile")
    /\ \E r \in compileLatex(expandedLatex) :
            /\ expandedResult' = r
            /\ IF r.success
               THEN pc' = "expand_count" /\ UNCHANGED <<outcome, hist>>
               ELSE /\ CompleteOnePage(currentLatex)
                    /\ hist' = [hist EXCEPT !.expansion = "compile_failed"]
    /\ UNCHANGED <<req, currentLatex, currentSummary, pageCount, attempt, lastPdfPath,
                   compileResult, compileFixAttempt, latexBeforeFixLoop, pageFill,
                   expandedLatex>>
    /\ UNCHANGED fnVars

(* expandedPageCount = await getPageCount(expandedCompileResult.pdfBuffer); *)
(* the candidate is adopted only when it still fits on one page.            *)

ExpandCount ==
    /\ pc = "expand_count"
    /\ calls' = Called("pagecount")
    /\ \/ /\ hist' = [hist EXCEPT !.expansion = "measured",
                                  !.expandedPages = expandedResult.pdf.pages]
          /\ IF AcceptExpanded(expandedResult.pdf.pages)
             THEN /\ currentLatex' = expandedLatex
                  /\ pc' = "expand_save"
                  /\ UNCHANGED outcome
             ELSE /\ CompleteOnePage(currentLatex)
                  /\ UNCHANGED currentLatex
       \/ /\ CompleteOnePage(currentLatex)
          /\ hist' = [hist EXCEPT !.expansion = "count_failed"]
          /\ UNCHANGED currentLatex
    /\ UNCHANGED <<req, currentSummary, pageCount, attempt, lastPdfPath, compileResult,
                   compileFixAttempt, latexBeforeFixLoop, pageFill, expandedLatex,
                   expandedResult>>
    /\ UNCHANGED fnVars

(* lastPdfPath = await saveTempPdf(expandedCompileResult.pdfBuffer,        *)
(* 'resume_expanded', attempt), still inside the try block and after       *)
(* currentLatex = expandedLatex.                                           *)

ExpandSave ==
    /\ pc = "expand_save"
    /\ calls' = Called("save")
    /\ \/ /\ lastPdfPath' = saveTempPdf(expandedResult.pdf, "resume_expanded", attempt)
          /\ Finish(CompleteEvent(currentLatex, ExpandedSummary(currentSummary), 1,
                                  attempt, lastPdfPath'))
          /\ hist' = [hist EXCEPT !.expansion = "accepted"]
       \/ /\ CompleteOnePage(currentLatex)
          /\ hist' = [hist EXCEPT !.expansion = "save_failed"]
          /\ UNCHANGED lastPdfPath
    /\ UNCHANGED <<req, currentLatex, currentSummary, pageCount, attempt, compileResult,
                   compileFixAttempt, latexBeforeFixLoop, pageFill, expandedLatex,
                   expandedResult>>
    /\ UNCHANGED fnVars

(* Overflow: analyzeOverflow(compileResult.pdfBuffer, pageCount), then the *)
(* small-overflow user choice or the way on to the condensation.           *)

AnalyzeOverflow ==
    /\ pc = "overflow"
    /\ calls' = Called("overflow")
    /\ \/ \E pct \in OverflowPercentages :
            /\ hist' = [hist EXCEPT !.overflowFirst = IF attempt = 1 THEN pct ELSE @]
            /\ IF SmallOverflowChoice(attempt, pct, req.forceCondense)
               THEN Finish(ChoiceEvent(currentLatex, currentSummary, pageCount, pct,
                                       attempt, lastPdfPath))
               ELSE pc' = "condense_raster" /\ UNCHANGED outcome
       \/ \E e \in ToolErrors("overflow") : Unhandled("overflow", e)
    /\ UNCHANGED <<req, currentLatex, currentSummary, pageCount, attempt, lastPdfPath,
                   compileResult, compileFixAttempt, latexBeforeFixLoop, pageFill,
                   expandedLatex, expandedResult>>
    /\ UNCHANGED fnVars

(* pageImages = await pdfToImages(compileResult.pdfBuffer) *)

CondenseRaster ==
    /\ pc = "condense_raster"
    /\ calls' = Called("raster")
    /\ \/ pc' = "condense_oracle" /\ UNCHANGED <<outcome, hist>>
       \/ \E e \in ToolErrors("raster") : Unhandled("raster", e)
    /\ UNCHANGED <<req, currentLatex, currentSummary, pageCount, attempt, lastPdfPath,
                   compileResult, compileFixAttempt, latexBeforeFixLoop, pageFill,
                   expandedLatex, expandedResult>>
    /\ UNCHANGED fnVars

(* aiClient.chat(retryMessages): the condensed text becomes the working    *)
(* document and control returns to the head of the retry loop; after the   *)
(* loop comes the 'complete_fallback' event.                               *)

CondenseOracle ==
    /\ pc = "condense_oracle"
    /\ calls' = Called("condense")
    /\ \/ \E condensedLatex \in Docs :
            /\ currentLatex' = condensedLatex
            /\ IF RetryLoopContinues(attempt)
               THEN pc' = "attempt" /\ UNCHANGED outcome
               ELSE Finish(CompleteEvent(condensedLatex, currentSummary, pageCount,
                                         attempt, lastPdfPath))
            \* the locals of the loop body go out of scope with the iteration
            /\ compileResult' = NoResult
            /\ compileFixAttempt' = 0
            /\ latexBeforeFixLoop' = EmptyDoc
            /\ hist' = [hist EXCEPT !.lastValid = EmptyDoc]
       \/ \E e \in OracleErrors :
            /\ Finish(ErrorEvent("AI Error on retry: ", e))
            /\ hist' = [hist EXCEPT !.oracleFailed = "condense", !.oracleError = e]
            /\ UNCHANGED <<currentLatex, compileResult, compileFixAttempt,
                           latexBeforeFixLoop>>
    /\ UNCHANGED <<req, currentSummary, pageCount, attempt, lastPdfPath, pageFill,
                   expandedLatex, expandedResult>>
    /\ UNCHANGED fnVars

-----------------------------------------------------------------------------

Next ==
    \/ ValidateRequest
    \/ Draft
    \/ StartAttempt
    \/ FixOracle
    \/ FixCompile
    \/ CompileFailed
    \/ SavePdf
    \/ GetPageCount
    \/ AnalyzePageFill
    \/ ExpandRaster
    \/ ExpandOracle
    \/ ExpandCompile
    \/ ExpandCount
    \/ ExpandSave
    \/ AnalyzeOverflow
    \/ CondenseRaster
    \/ CondenseOracle

Spec == Init /\ [][Next]_vars

Done == pc = "done"

-----------------------------------------------------------------------------
(* Properties of the convergence loop *)

\* C1: a run in which every measured page count is greater than 1, every outer
\* attempt ends with a successful compile, no oracle or measurement call raises
\* and the small-overflow choice does not fire (that is, a run that ends in a
\* complete event with a page count above 1) makes exactly MAX_RETRY_ATTEMPTS = 3
\* outer attempts and reports the page count measured on the third; no run
\* ever starts a fourth attempt.
C1_ThreeAttemptsThenComplete ==
    /\ attempt <= 3
    /\ (Done /\ ~hist.onePage /\ hist.measured = attempt /\ hist.measured > 0
             /\ outcome.type \notin {"error", "overflow_choice"})
         => /\ outcome.type = "complete"
            /\ attempt = 3
            /\ outcome.attempts = 3
            /\ hist.measured = 3
            /\ outcome.pageCount = hist.lastMeasured
            /\ outcome.pageCount > 1

C1_Witness ==
    /\ Done
    /\ outcome.type = "complete"
    /\ outcome.pageCount = 3
    /\ hist.measured = 3
    /\ calls.condense = 2

\* C2 (as stated): once the working document has been measured at exactly 1
\* page, the run ends with a complete event carrying pageCount = 1, and no
\* overflow analysis and no condensation request is made from then on.
C2_OnePageAlwaysCompletes ==
    hist.onePage =>
        /\ calls.overflow = hist.callsAtOnePage.overflow
        /\ calls.condense = hist.callsAtOnePage.condense
        /\ Done => (outcome.type = "complete" /\ outcome.pageCount = 1)

\* C2 (amended): once the working document has been measured at exactly 1 page,
\* no overflow analysis and no condensation request is made from then on, and
\* the run ends with a complete event carrying pageCount = 1 unless the
\* page-fill analysis or the rasterization for the expansion raises, in which
\* case it ends with an error event.
C2_OnePageCompletesUnlessToolFails ==
    hist.onePage =>
        /\ calls.overflow = hist.callsAtOnePage.overflow
        /\ calls.condense = hist.callsAtOnePage.condense
        /\ pc \in {"page_fill", "expand_raster", "expand_oracle", "expand_compile",
                   "expand_count", "expand_save", "done"}
        /\ Done => \/ outcome.type = "complete" /\ outcome.pageCount = 1
                   \/ outcome.type = "error" /\ hist.toolFailed \in {"pagefill", "raster"}

C2_Witness ==
    /\ Done
    /\ hist.onePage
    /\ outcome.type = "complete"
    /\ outcome.pageCount = 1
    /\ attempt = 2
    /\ calls.overflow = 1

\* C3: an expansion request is made at most once per run, and only on outer
\* attempt 1 with a page count of 1 and blankPercentage > 10; when the expanded
\* candidate fails to compile or its page count is not 1, the complete event
\* carries the pre-expansion document with pageCount = 1.
C3_ExpansionOnceAndDiscarded ==
    /\ calls.expand <= 1
    /\ calls.expand = 1 =>
          /\ attempt = 1
          /\ hist.lastMeasured = 1
          /\ pageCount = 1
          /\ pageFill > 10
    /\ (Done /\ (hist.expansion = "compile_failed" \/ hist.expandedPages > 1)) =>
          /\ outcome.type = "complete"
          /\ outcome.latex = hist.preExpansion
          /\ outcome.latex.id = compileResult.pdf.src
          /\ outcome.pageCount = 1

C3_Witness ==
    /\ Done
    /\ hist.expandedPages > 1
    /\ expandedLatex # hist.preExpansion
    /\ outcome.latex = hist.preExpansion

\* C4: when the validator rejects a fix candidate, the working document is the
\* snapshot taken before the fix attempts of that outer iteration, no further
\* external call (fix, oracle, compile, measurement) is made, the candidate is
\* therefore never compiled, and the run ends with a complete event carrying
\* pageCount = 0, the snapshot as the document and the manual-review summary.
C4_RejectedFixRestoresSnapshot ==
    hist.rejected =>
        /\ ~validateFixedLatex(latexBeforeFixLoop, hist.rejectedCand).isValid
        /\ currentLatex = latexBeforeFixLoop
        /\ calls = hist.callsAtReject
        /\ ~compileResult.success
        /\ pc \in {"post_fix", "done"}
        /\ Done =>
              /\ outcome.type = "complete"
              /\ outcome.pageCount = 0
              /\ outcome.latex = latexBeforeFixLoop
              /\ outcome.summary =
                    CompileFailedSummary(compileFixAttempt, compileResult.error)
              /\ outcome.pdfPath = NoPath

C4_Witness ==
    /\ Done
    /\ hist.rejected
    /\ compileFixAttempt = 2
    /\ hist.lastValid \notin {EmptyDoc, latexBeforeFixLoop}
    /\ outcome.latex = latexBeforeFixLoop

C6_ForcedCondenseOneAttempt ==
    (/\ Done
     /\ req.forceCondense
     /\ hist.overflowFirst >= 0 /\ hist.overflowFirst <= 10
     /\ hist.measured = 2
     /\ hist.lastMeasured = 1
     /\ outcome.type = "complete")
        => outcome.pageCount = 1 /\ outcome.attempts = 1

\* C6 (amended): with forceCondense set and a first compile overflowing by at
\* most 10%, the loop requests a condensation and recompiles in a second outer
\* attempt; when the recompiled document measures 1 page the run ends with a
\* complete event carrying pageCount = 1 and attempts = 2 (or, if the page-fill
\* analysis raises, with an error event).
C6_ForcedCondenseTwoAttempts ==
    (/\ req.forceCondense
     /\ hist.overflowFirst >= 0 /\ hist.overflowFirst <= 10
     /\ hist.measured = 2
     /\ hist.lastMeasured = 1)
        =>    /\ calls.condense = 1
              /\ calls.compile >= 2
              /\ attempt = 2
              /\ pc \in {"page_fill", "done"}
              /\ Done =>
                    \/ outcome = CompleteEvent(currentLatex, currentSummary, 1, 2,
                                               lastPdfPath)
                    \/ outcome.type = "error" /\ hist.toolFailed = "pagefill"

C6_Witness ==
    /\ Done
    /\ req.forceCondense
    /\ hist.overflowFirst = 10
    /\ hist.measured = 2
    /\ hist.lastMeasured = 1
    /\ outcome.type = "complete"
    /\ outcome.attempts = 2

\* C7: when the first compile of an outer attempt fails and the first fix
\* candidate passes the validator and compiles, the loop leaves the fix
\* sub-loop, the document measured and reported is the fixed one, and the fix
\* does not advance the outer attempt counter: a 1-page fixed document on the
\* first outer attempt yields attempts = 1.
C7_FirstFixCompilesAndIsMeasured ==
    /\ (compileFixAttempt >= 1 /\ compileResult.success) =>
          /\ pc \notin {"fix_oracle", "fix_compile"}
          /\ compileResult.pdf.src = hist.lastValid.id
          /\ pc \in {"post_fix", "page_count"} => currentLatex = hist.lastValid
          /\ hist.measured = attempt =>
                /\ hist.lastMeasured = compileResult.pdf.pages
                /\ pageCount = compileResult.pdf.pages
    /\ pc \in {"fix_oracle", "fix_compile", "post_fix", "page_count", "page_fill",
               "overflow"} => attempt = calls.condense + 1
    /\ (/\ Done
        /\ compileFixAttempt = 1
        /\ calls.condense = 0
        /\ hist.lastMeasured = 1
        /\ hist.expansion = "none"
        /\ outcome.type = "complete")
          => /\ outcome.attempts = 1
             /\ outcome.pageCount = 1
             /\ outcome.latex = hist.lastValid

C7_Witness ==
    /\ Done
    /\ compileFixAttempt = 1
    /\ calls.fix = 1
    /\ compileResult.success
    /\ outcome.type = "complete"
    /\ outcome.attempts = 1
    /\ outcome.pageCount = 1
    /\ outcome.latex = hist.lastValid
    /\ outcome.latex # latexBeforeFixLoop

\* C8: at most MAX_COMPILE_FIX_ATTEMPTS = 2 fix requests are made in one outer
\* attempt, and when the compile still fails after the second one the run ends
\* with a complete event (not an error event) carrying pageCount = 0 and the
\* summary that reports the compile failure and asks for a manual review.
C8_FixBudgetExhaustedCompletes ==
    /\ compileFixAttempt <= 2
    /\ calls.fix <= 2 * attempt
    /\ (/\ compileFixAttempt = 2
        /\ ~compileResult.success
        /\ hist.oracleFailed # "fix"
        /\ pc # "fix_compile")
          => /\ pc \in {"post_fix", "done"}
             /\ Done =>
                   /\ outcome.type = "complete"
                   /\ outcome.pageCount = 0
                   /\ outcome.summary = CompileFailedSummary(2, compileResult.error)
                   /\ outcome.attempts = attempt
                   /\ outcome.pdfPath = NoPath

C8_Witness ==
    /\ Done
    /\ compileFixAttempt = 2
    /\ ~hist.rejected
    /\ hist.oracleFailed = "none"
    /\ outcome.type = "complete"
    /\ outcome.pageCount = 0

\* C9: when the fix sub-loop exhausts its budget without a successful compile,
\* the document of the terminal event is the last fix candidate that passed the
\* validator in that outer iteration, or the pre-fix snapshot when none passed.
C9_ReturnsLastValidatedCandidate ==
    (/\ Done
     /\ outcome.type = "complete"
     /\ outcome.pageCount = 0
     /\ ~hist.rejected
     /\ compileFixAttempt = 2)
        => outcome.latex = IF hist.lastValid # EmptyDoc THEN hist.lastValid
                                                        ELSE latexBeforeFixLoop

\* C10 (as stated): a failure of any oracle call (drafting, compile-fix,
\* expansion, condensation) ends the run with an error event that carries the
\* underlying message; the call is not re-issued and no complete event follows.
C10_OracleFailureIsFatal ==
    hist.oracleFailed # "none" =>
        /\ Done
        /\ outcome.type = "error"
        /\ outcome.message.text = hist.oracleError

\* C10 (amended): a failure of the drafting, a compile-fix or the condensation
\* oracle call ends the run with an error event that carries the underlying
\* message; a failure of the expansion oracle call is caught and the run ends
\* with a complete event carrying the pre-expansion document and pageCount = 1.
\* In every case the run ends with the failed call: it is not re-issued.
C10_OracleFailureFatalExceptExpansion ==
    hist.oracleFailed # "none" =>
        /\ Done
        /\ ~ENABLED Next
        /\ calls[hist.oracleFailed] >= 1
        /\ hist.oracleFailed \in {"draft", "fix", "condense"} =>
              /\ outcome.type = "error"
              /\ outcome.message.text = hist.oracleError
              /\ outcome.message.prefix # ""
        /\ hist.oracleFailed = "expand" =>
              /\ outcome = CompleteEvent(hist.preExpansion, currentSummary, 1, 1,
                                         lastPdfPath)
              /\ currentLatex = hist.preExpansion

C10_Witness ==
    /\ Done
    /\ hist.oracleFailed = "expand"
    /\ outcome.type = "complete"
    /\ calls.expand = 1

-----------------------------------------------------------------------------
(* The fix validator on its own: validateFixedLatex applied to every       *)
(* original and candidate of bounded length, section count and item count. *)

\* what the validator reads of a text
ValTexts ==
    [len : 0..MaxLen, sections : 0..MaxSections, items : 0..MaxItems,
     hasBegin : BOOLEAN, hasEnd : BOOLEAN]

\* the original is a document that compiled or was uploaded: both markers
ValOriginals == {t \in ValTexts : t.hasBegin /\ t.hasEnd}

LoopIdle ==
    /\ pc = "idle"
    /\ req = [resume |-> EmptyDoc, originalResume |-> EmptyDoc,
              isFollowUp |-> FALSE, forceCondense |-> FALSE]
    /\ currentLatex = EmptyDoc
    /\ currentSummary = NoSummary
    /\ pageCount = 0
    /\ attempt = 0
    /\ lastPdfPath = NoPath
    /\ compileResult = NoResult
    /\ compileFixAttempt = 0
    /\ latexBeforeFixLoop = EmptyDoc
    /\ pageFill = 0
    /\ expandedLatex = EmptyDoc
    /\ expandedResult = NoResult
    /\ outcome = NoEvent
    /\ calls = NoCalls
    /\ hist = NoHist

ValInit ==
    /\ LoopIdle
    /\ fnInput \in [fn : {"validateFixedLatex"}, original : ValOriginals, fixed : ValTexts]
    /\ fnResult = NoOutput
    /\ tmp = NoTmp

\* const validation = validateFixedLatex(latexBeforeFixLoop, fixedLatex)
Validate ==
    /\ fnInput.fn = "validateFixedLatex"
    /\ fnResult = NoOutput
    /\ fnResult' = [fn |-> "validateFixedLatex",
                    verdict |-> validateFixedLatex(fnInput.original, fnInput.fixed)]
    /\ UNCHANGED <<loopVars, fnInput, tmp>>

ValSpec == ValInit /\ [][Validate]_vars

Validated == fnResult.fn = "validateFixedLatex"

\* the four conditions of the validator, as the specification words them
LengthBelow60 == 10 * fnInput.fixed.len < 6 * fnInput.original.len

SectionsBelowHalf ==
    /\ fnInput.original.sections >= 1
    /\ 2 * fnInput.fixed.sections < fnInput.original.sections

ItemsBelow40 ==
    /\ fnInput.original.items > 5
    /\ 5 * fnInput.fixed.items < 2 * fnInput.original.items

MarkerMissing == ~fnInput.fixed.hasBegin \/ ~fnInput.fixed.hasEnd

(* C11: a candidate shorter than 0.6 of the original is rejected; a         *)
(* candidate with at least 0.6 of the length, at least half the section    *)
(* headings (when the original has any), at least 40% of the list items    *)
(* (when the original has more than 5) and both markers is accepted.       *)
C11_LengthRejectsAndFullCandidateAccepted ==
    Validated =>
        /\ LengthBelow60 => ~fnResult.verdict.isValid
        /\ (~LengthBelow60 /\ ~SectionsBelowHalf /\ ~ItemsBelow40 /\ ~MarkerMissing)
              => fnResult.verdict.isValid

\* a candidate that lost every item of a five-item original, and nothing else,
\* was accepted
C11_Witness ==
    /\ Validated
    /\ fnInput.original.items = 5
    /\ fnInput.fixed.items = 0
    /\ fnInput.original.sections >= 1
    /\ fnInput.original.len = MaxLen
    /\ fnInput.fixed.len < fnInput.original.len
    /\ fnResult.verdict.isValid

(* C12: the checks run in the order length, sections, items, markers and   *)
(* the reason is that of the first check that fails: a candidate failing   *)
(* the length check gets the length reason whatever else it fails, and a   *)
(* later reason appears only when every earlier check passes.              *)
C12_ReasonOfFirstFailingCheck ==
    Validated =>
        /\ LengthBelow60 => fnResult.verdict.reason = "length"
        /\ fnResult.verdict.reason = "sections" => ~LengthBelow60 /\ SectionsBelowHalf
        /\ fnResult.verdict.reason = "items" =>
              ~LengthBelow60 /\ ~SectionsBelowHalf /\ ItemsBelow40
        /\ fnResult.verdict.reason = "envelope" =>
              ~LengthBelow60 /\ ~SectionsBelowHalf /\ ~ItemsBelow40 /\ MarkerMissing
        /\ fnResult.verdict.reason = "none" <=> fnResult.verdict.isValid

\* a candidate failing the length check and every later check
C12_Witness ==
    /\ Validated
    /\ LengthBelow60 /\ SectionsBelowHalf /\ ItemsBelow40 /\ MarkerMissing
    /\ fnResult.verdict.reason = "length"

(* C13: a candidate lacking \begin{document} or \end{document} is never    *)
(* valid, whatever its length, section count and item count.               *)
C13_MissingMarkerNeverValid ==
    (Validated /\ MarkerMissing) => ~fnResult.verdict.isValid

\* a candidate identical in size to the original but without \end{document}
C13_Witness ==
    /\ Validated
    /\ fnInput.fixed.len = fnInput.original.len
    /\ fnInput.fixed.sections = fnInput.original.sections
    /\ fnInput.fixed.items = fnInput.original.items
    /\ fnInput.original.items > 5
    /\ fnInput.fixed.hasBegin /\ ~fnInput.fixed.hasEnd
    /\ ~fnResult.verdict.isValid

-----------------------------------------------------------------------------
(* Double-precision arithmetic of Math.round((a / b) * 100).  A positive   *)
(* double is [m, e]: a mantissa of 53 bits (most significant first, the    *)
(* first one 1) and the exponent of its last bit, value m * 2^e.           *)

\* the number written by a short sequence of bits
RECURSIVE BitsValue(_)
BitsValue(bits) ==
    IF bits = <<>> THEN 0
    ELSE 2 * BitsValue(SubSeq(bits, 1, Len(bits) - 1)) + bits[Len(bits)]

\* the w low bits of a natural number
FixedBits(n, w) == [i \in 1..w |-> (n \div (2 ^ (w - i))) % 2]

\* bits + 1 on the same number of bits (all ones wrap to all zeros)
PlusOne(bits) ==
    LET zeros == {i \in 1..Len(bits) : bits[i] = 0}
        last == IF zeros = {} THEN 0 ELSE CHOOSE i \in zeros : \A j \in zeros : j <= i
    IN  [i \in 1..Len(bits) |-> IF i < last THEN bits[i] ELSE IF i = last THEN 1 ELSE 0]

\* variant: the bits beyond the 53rd are dropped
RoundToDouble_Truncate(bits) ==
    [m |-> SubSeq(bits, 1, 53), e |-> Len(bits) - 53]

\* round to nearest, ties to even, of a number of more than 53 bits
RoundToDouble(bits) ==
    LET kept == SubSeq(bits, 1, 53)
        dropped == SubSeq(bits, 54, Len(bits))
        up == /\ dropped[1] = 1
              /\ \/ kept[53] = 1
                 \/ \E i \in 2..Len(dropped) : dropped[i] = 1
        next == PlusOne(kept)
    IN  IF ~up THEN [m |-> kept, e |-> Len(dropped)]
        ELSE IF next[1] = 1 THEN [m |-> next, e |-> Len(dropped)]
        ELSE [m |-> <<1>> \o SubSeq(next, 2, 53), e |-> Len(dropped) + 1]

\* smallest z with a * 2^z >= b, for 1 <= a <= b
RECURSIVE LeadingShift(_, _)
LeadingShift(a, b) == IF a >= b THEN 0 ELSE 1 + LeadingShift(2 * a, b)

\* the next 53 bits of r / b (r < b), by long division 13 bits at a time,
\* then one more bit: the rest is not zero
QuotientBits(r, b) ==
    LET d1 == (r * (2 ^ 13)) \div b
        r1 == (r * (2 ^ 13)) % b
        d2 == (r1 * (2 ^ 13)) \div b
        r2 == (r1 * (2 ^ 13)) % b
        d3 == (r2 * (2 ^ 13)) \div b
        r3 == (r2 * (2 ^ 13)) % b
        d4 == (r3 * (2 ^ 13)) \div b
        r4 == (r3 * (2 ^ 13)) % b
    IN  FixedBits(d1, 13) \o FixedBits(d2, 13) \o FixedBits(d3, 13) \o FixedBits(d4, 13)
            \o <<(2 * r4) \div b, IF (2 * r4) % b # 0 THEN 1 ELSE 0>>

\* a / b, for 1 <= a <= b
DoubleQuotient(a, b) ==
    LET z == LeadingShift(a, b)
        rounded == RoundToDouble(<<1>> \o QuotientBits(a * (2 ^ z) - b, b))
    IN  [m |-> rounded.m, e |-> rounded.e - 54 - z]

\* x * 100: the mantissa is multiplied 20 bits at a time
DoubleTimes100(x) ==
    LET low == 100 * BitsValue(SubSeq(x.m, 34, 53))
        mid == 100 * BitsValue(SubSeq(x.m, 14, 33)) + low \div (2 ^ 20)
        high == 100 * BitsValue(SubSeq(x.m, 1, 13)) + mid \div (2 ^ 20)
        width == CHOOSE w \in 19..20 : high \div (2 ^ w) = 0 /\ high \div (2 ^ (w - 1)) = 1
        rounded == RoundToDouble(FixedBits(high, width) \o FixedBits(mid, 20)
                                     \o FixedBits(low, 20))
    IN  [m |-> rounded.m, e |-> rounded.e + x.e]

\* the integer part of a double below 2^31 and its first two fraction marks:
\* the half bit, and whether anything lies beyond it
DoubleParts(x) ==
    LET point == 53 + x.e     \* number of mantissa bits before the binary point
    IN  [int |-> IF point >= 1 THEN BitsValue(SubSeq(x.m, 1, point)) ELSE 0,
         half |-> point >= 0 /\ point < 53 /\ x.m[point + 1] = 1,
         more |-> \/ point < 0
                  \/ \E i \in (point + 2)..53 : i >= 1 /\ x.m[i] = 1]

\* variant: Math.floor
MathRound_Floor(x) == DoubleParts(x).int

\* Math.round(x) for x > 0: halves go up
MathRound(x) == DoubleParts(x).int + (IF DoubleParts(x).half THEN 1 ELSE 0)

\* Math.round(-x) for x > 0: halves go up, towards zero
MathRoundNegated(x) ==
    0 - (DoubleParts(x).int
         + (IF DoubleParts(x).half /\ DoubleParts(x).more THEN 1 ELSE 0))

\* Math.round((a / b) * 100) for b > 0 and -b <= a <= b
RoundedPercent(a, b) ==
    IF a = 0 THEN 0
    ELSE IF a > 0 THEN MathRound(DoubleTimes100(DoubleQuotient(a, b)))
    ELSE MathRoundNegated(DoubleTimes100(DoubleQuotient(0 - a, b)))

-----------------------------------------------------------------------------
(* The response decoder (lib/ai-client.ts).  A text is a sequence of       *)
(* characters; the words the decoder searches for (latex, summary,         *)
(* documentclass, json) and the fence ``` are single symbols, "n" is the   *)
(* letter n and "x" any other letter.                                      *)

Q == "\""

SQ == "'"

BS == "\\"

NL == "\n"

\* the three backquotes of a code fence
FENCE == "fence"

Chars ==
    {"{", "}", ",", ":", " ", Q, SQ, BS, NL, FENCE, "n", "x",
     "latex", "summary", "documentclass", "json"}

\* '\\documentclass'
StartMarker == <<BS, "documentclass">>

\* '• Resume modified successfully'
DefaultSummary == <<"Resume modified successfully">>

(* String.prototype methods, on sequences (indices from 1, 0: not found) *)

IsWhitespace(c) == c \in {" ", NL}

RECURSIVE trimStart(_)
trimStart(str) ==
    IF str # <<>> /\ IsWhitespace(Head(str)) THEN trimStart(Tail(str)) ELSE str

RECURSIVE trimEnd(_)
trimEnd(str) ==
    IF str # <<>> /\ IsWhitespace(str[Len(str)])
    THEN trimEnd(SubSeq(str, 1, Len(str) - 1))
    ELSE str

trim(str) == trimEnd(trimStart(str))

startsWith(str, p) == Len(str) >= Len(p) /\ SubSeq(str, 1, Len(p)) = p

endsWith(str, p) ==
    Len(str) >= Len(p) /\ SubSeq(str, Len(str) - Len(p) + 1, Len(str)) = p

indexOf(str, p) ==
    LET hits == {i \in 1..(Len(str) - Len(p) + 1) : SubSeq(str, i, i + Len(p) - 1) = p}
    IN  IF hits = {} THEN 0 ELSE CHOOSE i \in hits : \A j \in hits : i <= j

includes(str, p) == indexOf(str, p) # 0

\* str.slice(k), k symbols dropped
dropFirst(str, k) == SubSeq(str, k + 1, Len(str))

\* str.slice(0, -k)
dropLast(str, k) == SubSeq(str, 1, Len(str) - k)

(* JSON.parse, for the texts of this alphabet: an object whose members are *)
(* strings.  Inside a string a raw quote ends it, a raw newline is an      *)
(* error, and a backslash must be followed by ", \ or n.                   *)

\* the character an escape sequence stands for
JsonEscaped_Literal(c) == c

JsonEscaped(c) == IF c = "n" THEN NL ELSE c

\* first position from i that holds no whitespace
RECURSIVE SkipWhitespace(_, _)
SkipWhitespace(str, i) ==
    IF i <= Len(str) /\ IsWhitespace(str[i]) THEN SkipWhitespace(str, i + 1) ELSE i

\* position of the quote closing the string whose body starts at i; 0: malformed
RECURSIVE JsonStringEnd(_, _)
JsonStringEnd(str, i) ==
    IF i > Len(str) THEN 0
    ELSE IF str[i] = Q THEN i
    ELSE IF str[i] = NL THEN 0
    ELSE IF str[i] = BS
         THEN IF i + 1 <= Len(str) /\ str[i + 1] \in {Q, BS, "n"}
              THEN JsonStringEnd(str, i + 2)
              ELSE 0
    ELSE JsonStringEnd(str, i + 1)

RECURSIVE JsonUnescape(_)
JsonUnescape(body) ==
    IF body = <<>> THEN <<>>
    ELSE IF Head(body) = BS
         THEN <<JsonEscaped(body[2])>> \o JsonUnescape(SubSeq(body, 3, Len(body)))
         ELSE <<Head(body)>> \o JsonUnescape(Tail(body))

JsonFailed == [ok |-> FALSE, value |-> <<>>]

\* JSON.parse(`"${escaped}"`)
JsonParseString(escaped) ==
    IF JsonStringEnd(escaped \o <<Q>>, 1) = Len(escaped) + 1
    THEN [ok |-> TRUE, value |-> JsonUnescape(escaped)]
    ELSE JsonFailed

NoObject ==
    [ok |-> FALSE, hasLatex |-> FALSE, latex |-> <<>>,
     hasSummary |-> FALSE, summary |-> <<>>]

\* the members of an object from position i (the quote opening a key)
RECURSIVE JsonMembers(_, _, _)
JsonMembers(str, i, obj) ==
    IF i > Len(str) \/ str[i] # Q THEN NoObject
    ELSE LET keyEnd == JsonStringEnd(str, i + 1)
             colon == SkipWhitespace(str, keyEnd + 1)
             open == SkipWhitespace(str, colon + 1)
             valueEnd == JsonStringEnd(str, open + 1)
             after == SkipWhitespace(str, valueEnd + 1)
         IN  IF keyEnd = 0 \/ colon > Len(str) THEN NoObject
             ELSE IF str[colon] # ":" \/ open > Len(str) THEN NoObject
             ELSE IF str[open] # Q \/ valueEnd = 0 \/ after > Len(str) THEN NoObject
             ELSE LET key == JsonUnescape(SubSeq(str, i + 1, keyEnd - 1))
                      value == JsonUnescape(SubSeq(str, open + 1, valueEnd - 1))
                      member ==
                          IF key = <<"latex">>
                          THEN [obj EXCEPT !.hasLatex = TRUE, !.latex = value]
                          ELSE IF key = <<"summary">>
                          THEN [obj EXCEPT !.hasSummary = TRUE, !.summary = value]
                          ELSE obj
                  IN  IF str[after] = "}"
                      THEN IF SkipWhitespace(str, after + 1) > Len(str)
                           THEN [member EXCEPT !.ok = TRUE]
                           ELSE NoObject
                      ELSE IF str[after] = ","
                      THEN JsonMembers(str, SkipWhitespace(str, after + 1), member)
                      ELSE NoObject

\* JSON.parse(cleaned); ok: the text is an object (anything else has no .latex)
JsonParse(str) ==
    LET brace == SkipWhitespace(str, 1)
        first == SkipWhitespace(str, brace + 1)
    IN  IF brace > Len(str) THEN NoObject
        ELSE IF str[brace] # "{" \/ first > Len(str) THEN NoObject
        ELSE IF str[first] = "}"
        THEN IF SkipWhitespace(str, first + 1) > Len(str)
             THEN [NoObject EXCEPT !.ok = TRUE]
             ELSE NoObject
        ELSE JsonMembers(str, first, NoObject)

(* unescapeJsonString: \n, \" and \\ are decoded (\t and \r are not in the  *)
(* alphabet); any other backslash is kept and the scan moves on by one.    *)

RECURSIVE unescapeFrom(_, _)
unescapeFrom(str, i) ==
    IF i > Len(str) THEN <<>>
    ELSE IF str[i] = BS /\ i + 1 <= Len(str) /\ str[i + 1] \in {"n", Q, BS}
    THEN <<JsonEscaped(str[i + 1])>> \o unescapeFrom(str, i + 2)
    ELSE <<str[i]>> \o unescapeFrom(str, i + 1)

unescapeJsonString(str) == unescapeFrom(str, 1)

(* extractLatexFromJson *)

latexKeyPatterns ==
    << <<Q, "latex", Q, ":", " ", Q>>, <<Q, "latex", Q, ":", Q>>,
       <<SQ, "latex", SQ, ":", " ", SQ>>, <<SQ, "latex", SQ, ":", SQ>> >>

\* mutant: the value ends at the first quote, escaped or not, whatever follows
scanContentEnd_AnyQuote(response, i, quoteChar) ==
    LET quotes == {j \in i..Len(response) : response[j] = quoteChar}
    IN  IF quotes = {} THEN 0 ELSE CHOOSE j \in quotes : \A k \in quotes : j <= k

\* the while loop: position of the terminating quote, or 0
RECURSIVE scanContentEnd(_, _, _)
scanContentEnd(response, i, quoteChar) ==
    IF i > Len(response) THEN 0
    ELSE IF response[i] = BS /\ i + 1 <= Len(response)
    THEN scanContentEnd(response, i + 2, quoteChar)
    ELSE IF response[i] = quoteChar
            /\ LET remaining == trimStart(SubSeq(response, i + 1, Len(response)))
               IN  remaining = <<>> \/ Head(remaining) \in {",", "}"}
    THEN i
    ELSE scanContentEnd(response, i + 1, quoteChar)

NotExtracted == [found |-> FALSE, latex |-> <<>>]

\* variant: a value without terminator is not taken
truncatedContentEnd_None(response) == 0

\* if (contentEnd === -1) contentEnd = response.length
truncatedContentEnd(response) == Len(response) + 1

extractLatexFromJson(response) ==
    LET matching == {k \in 1..Len(latexKeyPatterns) :
                        includes(response, latexKeyPatterns[k])}
    IN  IF matching = {} THEN NotExtracted
        ELSE LET k == CHOOSE n \in matching : \A m \in matching : n <= m
                 pattern == latexKeyPatterns[k]
                 contentStart == indexOf(response, pattern) + Len(pattern)
                 quoteChar == pattern[Len(pattern)]
                 found == scanContentEnd(response, contentStart, quoteChar)
                 contentEnd == IF found = 0 THEN truncatedContentEnd(response) ELSE found
                 escapedLatex == SubSeq(response, contentStart, contentEnd - 1)
                 parsed == JsonParseString(escapedLatex)
                 unescaped == unescapeJsonString(escapedLatex)
             IN  IF contentEnd = 0 THEN NotExtracted
                 ELSE IF parsed.ok /\ parsed.value # <<>>
                         /\ includes(parsed.value, StartMarker)
                 THEN [found |-> TRUE, latex |-> parsed.value]
                 ELSE IF unescaped # <<>> /\ includes(unescaped, StartMarker)
                 THEN [found |-> TRUE, latex |-> unescaped]
                 ELSE NotExtracted

(* parseAIResponse *)

\* the leading and trailing fence of the first pass (```json or ```)
stripJsonFence(response) ==
    LET t == trim(response)
        opened == IF startsWith(t, <<FENCE, "json">>) THEN dropFirst(t, 2)
                  ELSE IF startsWith(t, <<FENCE>>) THEN dropFirst(t, 1)
                  ELSE t
        closed == IF endsWith(opened, <<FENCE>>) THEN dropLast(opened, 1) ELSE opened
    IN  trim(closed)

\* variant: the fallback leaves the closing fence in place
stripLatexFence_KeepClosing(response) ==
    LET t == trim(response)
        opened == IF startsWith(t, <<FENCE, "latex">>) THEN dropFirst(t, 2)
                  ELSE IF startsWith(t, <<FENCE>>) THEN dropFirst(t, 1)
                  ELSE t
    IN  trim(opened)

\* the leading and trailing fence of the fallback (```latex or ```)
stripLatexFence(response) ==
    LET t == trim(response)
        opened == IF startsWith(t, <<FENCE, "latex">>) THEN dropFirst(t, 2)
                  ELSE IF startsWith(t, <<FENCE>>) THEN dropFirst(t, 1)
                  ELSE t
        closed == IF endsWith(opened, <<FENCE>>) THEN dropLast(opened, 1) ELSE opened
    IN  trim(closed)

\* cleaned.match(/"summary"\s*:\s*"([^"]*(?:\\.[^"]*)*)"/): the group runs
\* to the first quote after the opening one ([^"]* also takes backslashes)
summaryMatch(cleaned) ==
    LET key == <<Q, "summary", Q>>
        ValueOpen(i) == SkipWhitespace(cleaned, SkipWhitespace(cleaned, i + 3) + 1)
        Matches(i) ==
            /\ i + 2 <= Len(cleaned)
            /\ SubSeq(cleaned, i, i + 2) = key
            /\ SkipWhitespace(cleaned, i + 3) <= Len(cleaned)
            /\ cleaned[SkipWhitespace(cleaned, i + 3)] = ":"
            /\ ValueOpen(i) <= Len(cleaned)
            /\ cleaned[ValueOpen(i)] = Q
            /\ \E e \in (ValueOpen(i) + 1)..Len(cleaned) : cleaned[e] = Q
        starts == {i \in 1..Len(cleaned) : Matches(i)}
    IN  IF starts = {} THEN [found |-> FALSE, group |-> <<>>]
        ELSE LET i == CHOOSE n \in starts : \A m \in starts : n <= m
                 closes == {e \in (ValueOpen(i) + 1)..Len(cleaned) : cleaned[e] = Q}
                 close == CHOOSE e \in closes : \A f \in closes : e <= f
             IN  [found |-> TRUE, group |-> SubSeq(cleaned, ValueOpen(i) + 1, close - 1)]

\* the strict parse yields a document: parsed.latex && typeof parsed.latex === 'string'
strictYields(cleaned) ==
    LET parsed == JsonParse(cleaned)
    IN  parsed.ok /\ parsed.hasLatex /\ parsed.latex # <<>>

parseAIResponse(response) ==
    LET cleaned == stripJsonFence(response)
        parsed == JsonParse(cleaned)
        extractedLatex == extractLatexFromJson(cleaned)
        match == summaryMatch(cleaned)
        strictSummary ==
            IF parsed.hasSummary /\ parsed.summary # <<>>
            THEN parsed.summary
            ELSE DefaultSummary
        scannedSummary ==
            IF ~match.found THEN DefaultSummary
            ELSE IF JsonParseString(match.group).ok
            THEN JsonParseString(match.group).value
            ELSE unescapeJsonString(match.group)
        latex == stripLatexFence(response)
        lastAttempt == extractLatexFromJson(latex)
    IN  IF strictYields(cleaned)
        THEN [latex |-> parsed.latex, summary |-> strictSummary]
        ELSE IF extractedLatex.found
        THEN [latex |-> extractedLatex.latex, summary |-> scannedSummary]
        ELSE IF startsWith(latex, <<"{">>) /\ includes(latex, <<Q, "latex", Q>>)
                /\ lastAttempt.found
        THEN [latex |-> lastAttempt.latex, summary |-> DefaultSummary]
        ELSE [latex |-> trim(latex), summary |-> DefaultSummary]

(* The decoder on its own.  The oracle means to send a document and a      *)
(* summary; its reply is the JSON text of the pair (JSON.stringify         *)
(* escaping, either spelling of the key, either order of the members),     *)
(* that text cut short inside the document value, or any other short text. *)

DocAlphabet == {BS, Q, NL, "documentclass", "x"}

DocStrings == UNION {[1..n -> DocAlphabet] : n \in 0..MaxDocLen}

SummaryStrings == {<<>>, <<"x">>, <<"x", Q>>}

RawTexts == UNION {[1..n -> Chars] : n \in 0..MaxRawLen}

RECURSIVE JsonEscape(_)
JsonEscape(str) ==
    IF str = <<>> THEN <<>>
    ELSE (IF Head(str) = NL THEN <<BS, "n">>
          ELSE IF Head(str) \in {Q, BS} THEN <<BS, Head(str)>>
          ELSE <<Head(str)>>) \o JsonEscape(Tail(str))

JsonMember(key, value, spaced) ==
    <<Q, key, Q, ":">> \o (IF spaced THEN <<" ">> ELSE <<>>)
        \o <<Q>> \o JsonEscape(value) \o <<Q>>

JsonText(document, summary, spaced, latexFirst) ==
    LET sep == <<",">> \o (IF spaced THEN <<" ">> ELSE <<>>)
    IN  <<"{">>
        \o (IF latexFirst
            THEN JsonMember("latex", document, spaced) \o sep
                     \o JsonMember("summary", summary, spaced)
            ELSE JsonMember("summary", summary, spaced) \o sep
                     \o JsonMember("latex", document, spaced))
        \o <<"}">>

\* position in JsonText of the quote opening the document value
ValueOpens(document, summary, spaced, latexFirst) ==
    LET key == IF spaced THEN latexKeyPatterns[1] ELSE latexKeyPatterns[2]
        before == IF latexFirst THEN 1
                  ELSE 1 + Len(JsonMember("summary", summary, spaced))
                         + (IF spaced THEN 2 ELSE 1)
    IN  before + Len(key)

DecodeInit ==
    /\ LoopIdle
    /\ fnInput \in [fn : {"oracle"}, shape : {"none"}, document : DocStrings,
                    summary : SummaryStrings, response : {<<>>}, cut : {0}]
    /\ fnResult = NoOutput
    /\ tmp = NoTmp

\* the reply is the well-formed JSON text
ReplyJson ==
    /\ fnInput.fn = "oracle"
    /\ \E spaced \in BOOLEAN, latexFirst \in BOOLEAN :
            fnInput' = [fnInput EXCEPT
                !.fn = "parseAIResponse", !.shape = "json",
                !.response = JsonText(fnInput.document, fnInput.summary, spaced, latexFirst)]
    /\ UNCHANGED <<loopVars, fnResult, tmp>>

\* the reply stops inside the document value: cut is the number of
\* characters of the escaped value that arrived
ReplyTruncated ==
    /\ fnInput.fn = "oracle"
    /\ \E spaced \in BOOLEAN, latexFirst \in BOOLEAN,
          n \in 0..Len(JsonEscape(fnInput.document)) :
            fnInput' = [fnInput EXCEPT
                !.fn = "parseAIResponse", !.shape = "truncated", !.cut = n,
                !.response =
                    SubSeq(JsonText(fnInput.document, fnInput.summary, spaced, latexFirst),
                           1,
                           ValueOpens(fnInput.document, fnInput.summary,
                                      spaced, latexFirst) + n)]
    /\ UNCHANGED <<loopVars, fnResult, tmp>>

\* the reply has the shape of the JSON text, but the document was put
\* between the quotes as it is, its quotes, backslashes and newlines unescaped
ReplyUnescaped ==
    /\ fnInput.fn = "oracle"
    /\ \E spaced \in BOOLEAN :
            fnInput' = [fnInput EXCEPT
                !.fn = "parseAIResponse", !.shape = "unescaped",
                !.response =
                    <<"{">> \o (IF spaced THEN latexKeyPatterns[1] ELSE latexKeyPatterns[2])
                        \o fnInput.document \o <<Q, ",">>
                        \o JsonMember("summary", fnInput.summary, spaced) \o <<"}">>]
    /\ UNCHANGED <<loopVars, fnResult, tmp>>

\* the reply is some other text
ReplyRaw ==
    /\ fnInput.fn = "oracle"
    /\ fnInput.document = <<>>
    /\ fnInput.summary = <<>>
    /\ \E text \in RawTexts :
            fnInput' = [fnInput EXCEPT
                !.fn = "parseAIResponse", !.shape = "raw", !.response = text]
    /\ UNCHANGED <<loopVars, fnResult, tmp>>

\* const parsed = parseAIResponse(response)
Decode ==
    /\ fnInput.fn = "parseAIResponse"
    /\ fnResult = NoOutput
    /\ fnResult' = [fn |-> "parseAIResponse", value |-> parseAIResponse(fnInput.response)]
    /\ UNCHANGED <<loopVars, fnInput, tmp>>

DecodeNext ==
    \/ ReplyJson
    \/ ReplyTruncated
    \/ ReplyUnescaped
    \/ ReplyRaw
    \/ Decode

DecodeSpec == DecodeInit /\ [][DecodeNext]_vars

Decoded == fnResult.fn = "parseAIResponse"

MarkerArrived ==
    Len(JsonEscape(SubSeq(fnInput.document, 1,
                          indexOf(fnInput.document, StartMarker) + 1)))

\* the escaped value that arrived before the cut
ArrivedValue == SubSeq(JsonEscape(fnInput.document), 1, fnInput.cut)

RawStripped ==
    LET t == trim(fnInput.response)
        a == IF t # <<>> /\ t[1] = FENCE
             THEN IF Len(t) >= 2 /\ t[2] = "latex" THEN 2 ELSE 1
             ELSE 0
        body == dropFirst(t, a)
        b == IF body # <<>> /\ body[Len(body)] = FENCE THEN 1 ELSE 0
    IN  trim(dropLast(body, b))

(* C16: the decoder returns a pair for every text; when neither the strict *)
(* parse nor the tolerant scan yields a document, the document returned is *)
(* the raw text with its fences stripped and trimmed, and the summary is   *)
(* the default one.                                                        *)
C16_FallbackIsStrippedRawText ==
    Decoded =>
        /\ fnResult.value.latex \in Seq(Chars)
        /\ fnResult.value.summary \in Seq(Chars \cup {DefaultSummary[1]})
        /\ (/\ ~strictYields(stripJsonFence(fnInput.response))
            /\ ~extractLatexFromJson(stripJsonFence(fnInput.response)).found)
              => /\ fnResult.value.latex = RawStripped
                 /\ fnResult.value.summary = DefaultSummary

\* a fenced text that is no JSON came back without fences and whitespace
C16_Witness ==
    /\ Decoded
    /\ fnInput.shape = "raw"
    /\ Len(fnInput.response) = MaxRawLen
    /\ fnInput.response[1] = FENCE
    /\ fnInput.response[2] = NL
    /\ fnResult.value.latex = <<fnInput.response[3]>>
    /\ fnInput.response[3] = BS
    /\ fnResult.value.summary = DefaultSummary

-----------------------------------------------------------------------------
(* analyzeOverflow on its own.  The text pdftotext prints for a range of   *)
(* pages is a sequence of lines, each line the number of words on it (0: a *)
(* blank line).                                                            *)

\* text.split(/\s+/).filter(word => word.trim().length > 0).length
RECURSIVE countWords(_)
countWords(text) == IF text = <<>> THEN 0 ELSE Head(text) + countWords(Tail(text))

\* text.split('\n').filter(line => line.trim().length > 0).length
countLines(text) == Cardinality({i \in 1..Len(text) : text[i] > 0})

analyzeOverflow(pdfBuffer, pages) ==
    LET page1Text == pdfBuffer.page1
        overflowText == IF pages > 1 THEN pdfBuffer.rest ELSE <<>>
        totalWords == countWords(page1Text) + countWords(overflowText)
    IN  [overflowLines |-> countLines(overflowText),
         overflowWords |-> countWords(overflowText),
         totalLines |-> countLines(page1Text) + countLines(overflowText),
         totalWords |-> totalWords,
         overflowPercentage |->
             IF totalWords > 0
             THEN RoundedPercent(countWords(overflowText), totalWords)
             ELSE 0]

\* page texts: up to MaxTextLines lines of equally many words, then
\* possibly a blank line
PageTexts ==
    {[i \in 1..n |-> w] \o blank :
        n \in 0..MaxTextLines, w \in 1..MaxWordsPerLine, blank \in {<<>>, <<0>>}}

\* a PDF of one page has no text after page 1
PdfBuffers ==
    {b \in [pages : 1..2, page1 : PageTexts, rest : PageTexts] :
        b.pages = 1 => b.rest = <<>>}

OverflowInit ==
    /\ LoopIdle
    /\ fnInput \in [fn : {"analyzeOverflow"}, pdfBuffer : PdfBuffers]
    /\ fnResult = NoOutput
    /\ tmp = NoTmp

\* const overflowAnalysis = await analyzeOverflow(compileResult.pdfBuffer, pageCount)
MeasureOverflow ==
    /\ fnInput.fn = "analyzeOverflow"
    /\ fnResult = NoOutput
    /\ fnResult' = [fn |-> "analyzeOverflow",
                    value |-> analyzeOverflow(fnInput.pdfBuffer, fnInput.pdfBuffer.pages)]
    /\ UNCHANGED <<loopVars, fnInput, tmp>>

OverflowSpec == OverflowInit /\ [][MeasureOverflow]_vars

OverflowMeasured == fnResult.fn = "analyzeOverflow"

\* the words on page 1 and after it, counted from the input
Page1Words == countWords(fnInput.pdfBuffer.page1)

OverflowWords == countWords(fnInput.pdfBuffer.rest)

(* C17: totalWords = page1Words + overflowWords, and overflowPercentage is *)
(* overflowWords / totalWords * 100 rounded (halves up), 0 when totalWords *)
(* is 0, always within 0..100.                                             *)
C17_ExactRoundedPercentage ==
    OverflowMeasured =>
        /\ fnResult.value.totalWords = Page1Words + OverflowWords
        /\ fnResult.value.overflowPercentage \in 0..100
        /\ fnResult.value.overflowPercentage =
              IF Page1Words + OverflowWords = 0 THEN 0
              ELSE (200 * OverflowWords + Page1Words + OverflowWords)
                       \div (2 * (Page1Words + OverflowWords))

(* C17, amended: ... overflowPercentage is an integer nearest to           *)
(* overflowWords / totalWords * 100 (at an exact half either neighbour: it *)
(* is rounded in double precision), 0 when totalWords is 0, always within  *)
(* 0..100.                                                                 *)
C17_NearestPercentage ==
    OverflowMeasured =>
        LET total == Page1Words + OverflowWords
            distance == 100 * OverflowWords - fnResult.value.overflowPercentage * total
        IN  /\ fnResult.value.totalWords = total
            /\ fnResult.value.overflowWords = OverflowWords
            /\ fnResult.value.overflowPercentage \in 0..100
            /\ total = 0 => fnResult.value.overflowPercentage = 0
            /\ 2 * distance <= total
            /\ 2 * (0 - distance) <= total

\* 10 overflow words of 40 gave 25
C17_Witness ==
    /\ OverflowMeasured
    /\ OverflowWords = 10
    /\ Page1Words = 30
    /\ fnResult.value.totalWords = 40
    /\ fnResult.value.overflowPercentage = 25

-----------------------------------------------------------------------------
(* analyzePageFill on its own, applied to what pdftotext -bbox prints: the *)
(* page element (or none that the pattern matches) and the word boxes.     *)
(* Coordinates are whole numbers of some unit; on them the comparisons     *)
(* with pageHeight * 0.90, pageWidth * 0.3 and pageWidth * 0.7 are exact.  *)

(* A word's text is the sequence of the kinds of its characters: "d" a      *)
(* digit, "s" a white-space character, "/" the slash, "page" the four      *)
(* letters in either case, "x" anything else.  The words are the elements  *)
(* that wordRegex matches, in the order of the output.                     *)

\* /^(\d{1,2}|page\s*\d+|\d+\s*\/\s*\d+)$/i.test(content), content = match[5].trim()
isPageNumber(content) ==
    LET inked == {i \in 1..Len(content) : content[i] # "s"}
        text == IF inked = {} THEN <<>>
                ELSE SubSeq(content, CHOOSE i \in inked : \A j \in inked : i <= j,
                                     CHOOSE i \in inked : \A j \in inked : j <= i)
        n == Len(text)
        digits(a, b) == a <= b /\ \A i \in a..b : text[i] = "d"
        spaces(a, b) == \A i \in a..b : text[i] = "s"
    IN  \/ n \in 1..2 /\ digits(1, n)
        \/ /\ n >= 2
           /\ text[1] = "page"
           /\ \E k \in 2..n : spaces(2, k - 1) /\ digits(k, n)
        \/ \E slash \in 2..(n - 1) :
              /\ text[slash] = "/"
              /\ \E k \in 1..(slash - 1) : digits(1, k) /\ spaces(k + 1, slash - 1)
              /\ \E k \in (slash + 1)..n : spaces(slash + 1, k - 1) /\ digits(k, n)

\* mutant: the filter without the test of the horizontal position
skipsWord_AnyColumn(word, pageWidth, pageHeight) ==
    /\ 10 * word.yMax > 9 * pageHeight
    /\ isPageNumber(word.content)

\* isInBottomMargin && isHorizontallyCentered && isPageNumber
skipsWord(word, pageWidth, pageHeight) ==
    /\ 10 * word.yMax > 9 * pageHeight
    /\ 10 * word.xMin > 3 * pageWidth /\ 10 * word.xMax < 7 * pageWidth
    /\ isPageNumber(word.content)

\* mutant: an unreadable page element is reported as an empty page
analyzePageFill_EmptyPage(stdout) ==
    [pageHeight |-> 792, contentBottom |-> 0, blankSpace |-> 792, blankPercentage |-> 100]

analyzePageFill(stdout) ==
    LET counted == {i \in 1..Len(stdout.words) :
                        ~skipsWord(stdout.words[i], stdout.width, stdout.height)}
        bottoms == {stdout.words[i].yMax : i \in counted} \cup {0}
        maxYBottom == CHOOSE y \in bottoms : \A z \in bottoms : z <= y
        blankSpace == stdout.height - maxYBottom
    IN  IF ~stdout.page
        THEN [pageHeight |-> 792, contentBottom |-> 792,
              blankSpace |-> 0, blankPercentage |-> 0]
        ELSE IF maxYBottom = 0
        THEN [pageHeight |-> stdout.height, contentBottom |-> 0,
              blankSpace |-> stdout.height, blankPercentage |-> 100]
        ELSE [pageHeight |-> stdout.height, contentBottom |-> maxYBottom,
              blankSpace |-> blankSpace,
              blankPercentage |-> RoundedPercent(blankSpace, stdout.height)]

\* a word box: centred or not, a page number ("1") or a word ("x")
WordBoxes ==
    [xMin : {3, 4}, xMax : {6}, yMax : 0..MaxY, content : {<<"d">>, <<"x">>}]

\* the texts of at most MaxContentLen characters
WordContents ==
    UNION {[1..n -> {"d", "s", "/", "page", "x"}] : n \in 0..MaxContentLen}

\* the extractor's output: pages 10 wide, MaxY - 2 or MaxY - 4 high, with any
\* words of one character, or with a word of the body text and below it a
\* word of any text near the end of the page
BboxOutputs ==
    LET bodyWord == [xMin |-> 3, xMax |-> 6, yMax |-> MaxY - 6, content |-> <<"x">>]
        lastWords == [xMin : {3, 4}, xMax : {6, 7}, yMax : (MaxY - 4)..(MaxY - 2),
                      content : WordContents]
    IN  {[page |-> TRUE, width |-> 10, height |-> h, words |-> w] :
            h \in {MaxY - 2, MaxY - 4},
            w \in UNION {[1..n -> WordBoxes] : n \in 0..MaxBoxes}
                    \cup {<<last>> : last \in lastWords}
                    \cup {<<bodyWord, last>> : last \in lastWords}}
        \cup {[page |-> FALSE, width |-> 0, height |-> 0, words |-> <<>>]}

FillInit ==
    /\ LoopIdle
    /\ fnInput \in [fn : {"analyzePageFill"}, stdout : BboxOutputs]
    /\ fnResult = NoOutput
    /\ tmp = NoTmp

\* const pageFill = await analyzePageFill(compileResult.pdfBuffer)
MeasurePageFill ==
    /\ fnInput.fn = "analyzePageFill"
    /\ fnResult = NoOutput
    /\ fnResult' = [fn |-> "analyzePageFill", value |-> analyzePageFill(fnInput.stdout)]
    /\ UNCHANGED <<loopVars, fnInput, tmp>>

FillSpec == FillInit /\ [][MeasurePageFill]_vars

FillMeasured == fnResult.fn = "analyzePageFill"

(* C18: every result of analyzePageFill has blankSpace = pageHeight -      *)
(* contentBottom >= 0 and blankPercentage the rounded value of blankSpace  *)
(* / pageHeight * 100 within 0..100, also when a word's bottom edge lies   *)
(* below the end of the page.                                              *)
C18_BlankSpaceWithinPage ==
    FillMeasured =>
        LET fill == fnResult.value
            distance == 100 * fill.blankSpace - fill.blankPercentage * fill.pageHeight
        IN  /\ fill.blankSpace = fill.pageHeight - fill.contentBottom
            /\ fill.blankSpace >= 0
            /\ fill.blankPercentage \in 0..100
            /\ 2 * distance <= fill.pageHeight
            /\ 2 * (0 - distance) <= fill.pageHeight

-----------------------------------------------------------------------------------------------------------------------------------------------------
(* Temporary paths.  NumRuns compile calls are served by the same process, *)
(* run r compiling document r.  A call is either compileLatex of the       *)
(* library ("lib"), whose working directory is latex_${Date.now()}, or the *)
(* compile-latex route ("route"), whose directory is                       *)
(* latex-compile-${randomUUID()} and which first writes the uploaded image *)
(* assets.  The steps of the calls interleave at every await, the clock    *)
(* advances on its own, and every file operation and the compiler may      *)
(* fail.                                                                   *)

Runs == 1..NumRuns

\* a path that does not exist: no source file, no image asset, no output
NoDir == [exists |-> FALSE, tex |-> 0, img |-> FALSE, pdf |-> 0]

\* mutant: the cleanup removes the source and the assets, not the outputs
rmRecursive_KeepOutputs(dir) == [dir EXCEPT !.tex = 0, !.img = FALSE]

\* fs.rm(tempDir, {recursive: true, force: true}); readdir, unlink each, rmdir
rmRecursive(dir) == NoDir

TempInit ==
    /\ LoopIdle
    /\ fnInput = NoInput
    /\ fnResult = NoOutput
    /\ \E api \in [Runs -> {"lib", "route"}] :
          tmp = [now |-> 1,
                 dirs |-> [t \in 1..(MaxClock + NumRuns) |-> NoDir],
                 run |-> [r \in Runs |->
                            [api |-> api[r], pc |-> "idle", tempDir |-> 0,
                             result |-> [success |-> FALSE, pdf |-> 0, error |-> "none"],
                             rmFailed |-> FALSE]]]

\* a millisecond passes
Tick ==
    /\ tmp.now < MaxClock
    /\ tmp' = [tmp EXCEPT !.now = @ + 1]
    /\ UNCHANGED <<loopVars, fnInput, fnResult>>

\* tempDir = latex_${Date.now()} | latex-compile-${uniqueId}; mkdir(tempDir);
\* [writeFile(imagePath, imageBuffer);] writeFile(texPath, latexContent);
\* a rejected mkdir or writeFile is caught and returned as an error
CompileStart(r) ==
    /\ tmp.run[r].pc = "idle"
    /\ LET path == IF tmp.run[r].api = "lib" THEN tmp.now ELSE MaxClock + r
           dir == tmp.dirs[path]
       IN  \/ tmp' = [tmp EXCEPT
                    !.run[r] = [@ EXCEPT !.pc = "tectonic", !.tempDir = path],
                    !.dirs[path] = [dir EXCEPT !.exists = TRUE, !.tex = r,
                                               !.img = @ \/ tmp.run[r].api = "route"]]
           \/ \E made \in {dir,
                          [dir EXCEPT !.exists = TRUE],
                          [dir EXCEPT !.exists = TRUE,
                                      !.img = @ \/ tmp.run[r].api = "route"]} :
                tmp' = [tmp EXCEPT
                    !.run[r] = [@ EXCEPT !.pc = "cleanup", !.tempDir = path,
                                         !.result.error = "io error"],
                    !.dirs[path] = made]
    /\ UNCHANGED <<loopVars, fnInput, fnResult>>

\* tectonic -X compile texPath --outdir tempDir: the PDF of whatever the
\* source file holds, or no PDF; the command fails on a compiler error, on
\* the timeout, and when the directory is gone
RunTectonic(r) ==
    /\ tmp.run[r].pc = "tectonic"
    /\ LET dir == tmp.dirs[tmp.run[r].tempDir]
       IN  \/ /\ dir.exists /\ dir.tex # 0
              /\ \E out \in {0, dir.tex} :
                    tmp' = [tmp EXCEPT
                        !.run[r].pc = "read",
                        !.dirs[tmp.run[r].tempDir].pdf = out]
           \/ tmp' = [tmp EXCEPT !.run[r].pc = "cleanup",
                                 !.run[r].result.error = "compile failed"]
    /\ UNCHANGED <<loopVars, fnInput, fnResult>>

\* fs.readFile(pdfPath), or 'PDF was not generated'
ReadPdf(r) ==
    /\ tmp.run[r].pc = "read"
    /\ LET dir == tmp.dirs[tmp.run[r].tempDir]
       IN  tmp' = [tmp EXCEPT
                !.run[r].pc = "cleanup",
                !.run[r].result =
                    IF dir.exists /\ dir.pdf # 0
                    THEN [success |-> TRUE, pdf |-> dir.pdf, error |-> "none"]
                    ELSE [success |-> FALSE, pdf |-> 0, error |-> "PDF was not generated"]]
    /\ UNCHANGED <<loopVars, fnInput, fnResult>>

\* finally: the removal of the directory, its own failure being swallowed
Cleanup(r) ==
    /\ tmp.run[r].pc = "cleanup"
    /\ \/ tmp' = [tmp EXCEPT !.run[r].pc = "done",
                             !.dirs[tmp.run[r].tempDir] = rmRecursive(@)]
       \/ tmp' = [tmp EXCEPT !.run[r].pc = "done", !.run[r].rmFailed = TRUE]
    /\ UNCHANGED <<loopVars, fnInput, fnResult>>

TempNext ==
    \/ Tick
    \/ \E r \in Runs : CompileStart(r)
    \/ \E r \in Runs : RunTectonic(r)
    \/ \E r \in Runs : ReadPdf(r)
    \/ \E r \in Runs : Cleanup(r)

TempSpec == TempInit /\ [][TempNext]_vars

\* run r is inside the compile call
Compiling(r) == tmp.run[r].pc \in {"tectonic", "read", "cleanup"}

(* C19: two runs executing concurrently never use the same temporary       *)
(* working path, and so a run never gets the compile result of another     *)
(* run's document: no run reads, overwrites or deletes the files of        *)
(* another.                                                                *)
C19_ConcurrentRunsUseDistinctPaths ==
    \A r \in Runs :
        /\ \A q \in Runs \ {r} :
              (Compiling(r) /\ Compiling(q)) => tmp.run[r].tempDir # tmp.run[q].tempDir
        /\ tmp.run[r].result.success => tmp.run[r].result.pdf = r

(* C23: a compile call returns only through its cleanup, on the success    *)
(* path, the failure path and the exception path alike: when it has        *)
(* returned, its working directory with the source file, the image assets  *)
(* and the compiler outputs is gone unless the removal itself failed, and  *)
(* the removal, failed or not, leaves the result of the call as it was.    *)
C23_CleanedUpOnEveryExit ==
    [][\A r \in Runs :
          (tmp'.run[r].pc = "done" /\ tmp.run[r].pc # "done") =>
              /\ tmp.run[r].pc = "cleanup"
              /\ tmp.run[r].result.success \/ tmp.run[r].result.error # "none"
              /\ tmp'.run[r].result = tmp.run[r].result
              /\ ~tmp'.run[r].rmFailed => tmp'.dirs[tmp.run[r].tempDir] = NoDir]_vars

C23_Witness ==
    \E r \in Runs :
        /\ tmp.run[r].api = "route"
        /\ tmp.run[r].pc = "done"
        /\ tmp.run[r].result.error = "io error"
        /\ ~tmp.run[r].rmFailed
        /\ tmp.dirs[tmp.run[r].tempDir] = NoDir
        /\ \E q \in Runs : tmp.run[q].pc = "done" /\ tmp.run[q].result.pdf = q
                            /\ ~tmp.run[q].rmFailed

-----
(* Request validation, in the words of the contract.                       *)

\* the request lacks a required field or names a model of another provider
InvalidRequest(r) ==
    \/ r.resume = EmptyDoc
    \/ ~r.isFollowUp /\ r.jobOffer = ""
    \/ r.isFollowUp /\ r.followUpInstruction = ""
    \/ r.apiKey = ""
    \/ r.provider = ""
    \/ r.model = ""
    \/ r.model \notin {id \in DOMAIN models : models[id] = r.provider}

(* C20: a run whose request lacks the resume, the job offer (initial run), *)
(* the follow-up instruction (follow-up run), the API key, the provider or *)
(* the model, or names a model that is not the provider's, takes exactly   *)
(* one step: it emits one error event and closes, having made no oracle    *)
(* call and no compile call, and without starting an attempt.              *)
C20_InvalidRequestOneErrorNoCalls ==
    [][InvalidRequest(req) =>
            /\ pc = "validate"
            /\ outcome = NoEvent
            /\ pc' = "done"
            /\ outcome'.type = "error"
            /\ calls' = NoCalls
            /\ attempt' = 0]_vars

C20_Witness ==
    /\ pc = "done"
    /\ req.resume # EmptyDoc /\ req.jobOffer # "" /\ req.apiKey # ""
    /\ req.provider = "openai"
    /\ req.model = "gemini-3-flash-preview"
    /\ outcome = ErrorEvent("", "Invalid model for the selected provider")
    /\ calls = NoCalls

-----------------------------------------------------------------------------
(* Failures of the tools around the loop *)

\* C21 (as stated): whenever getPageCount raises, for the working document or
\* for an expansion candidate, the run ends with an error event.
C21_PageCountFailureIsFatal ==
    (hist.toolFailed = "pagecount" \/ hist.expansion = "count_failed") =>
        /\ Done
        /\ outcome.type = "error"

\* C21 (amended): getPageCount raises when the page count cannot be parsed and
\* no default is used.  For the working document the run ends with an error
\* event carrying the message; for an expansion candidate the failure is
\* caught by the expansion block and the run ends with a complete event
\* carrying the pre-expansion document and pageCount = 1.
C21_PageCountFailureFatalExceptExpansion ==
    /\ hist.toolFailed = "pagecount" =>
          /\ Done
          /\ outcome.type = "error"
          /\ outcome.message.prefix = ""
          /\ outcome.message.text \in ToolErrors("pagecount")
          /\ pageCount = hist.lastMeasured
          /\ hist.measured = attempt - 1
    /\ hist.expansion = "count_failed" =>
          /\ Done
          /\ outcome = CompleteEvent(hist.preExpansion, currentSummary, 1, 1, lastPdfPath)
          /\ currentLatex = hist.preExpansion
          /\ hist.expandedPages = 0

C21_Witness ==
    /\ Done
    /\ hist.expansion = "count_failed"
    /\ calls.pagecount = 2
    /\ expandedLatex # hist.preExpansion
    /\ outcome.type = "complete"
    /\ outcome.pageCount = 1

\* C22: compileLatex never raises to the loop: every failure (compiler exit,
\* timeout, missing PDF, working directory not writable) comes back as a result
\* with success = false and its diagnostic, so no compile call is followed by
\* an error event, and a failed compile of the working document at the head of
\* an outer attempt takes the loop into the compile-fix sub-loop.
C22_CompileFailureEntersFixLoop ==
    [][calls'.compile > calls.compile =>
            /\ outcome'.type # "error"
            /\ hist'.toolFailed = "none"
            /\ (pc = "attempt" /\ ~compileResult'.success) =>
                  /\ compileResult'.error \in CompileErrors
                  /\ pc' = "fix_oracle"
                  /\ outcome' = NoEvent
                  /\ compileFixAttempt' = 0]_vars

C22_Witness ==
    /\ pc = "fix_oracle"
    /\ ~compileResult.success
    /\ compileResult.error \in CompileErrors
    /\ compileFixAttempt = 0
    /\ calls.compile = attempt
    /\ calls.fix = 0
    /\ outcome = NoEvent

\* C24: an overflow_choice event is emitted only on outer attempt 1, for an
\* analysed overflowPercentage of at most 10 and with forceCondense unset: a
\* run started with forceCondense never ends in overflow_choice, and the
\* overflow analysis of outer attempts 2 and 3 never leads to it, whatever
\* percentage it reports.
C24_ChoiceOnlyOnFirstAttemptUnforced ==
    /\ outcome.type = "overflow_choice" =>
          /\ attempt = 1
          /\ outcome.attempts = 1
          /\ hist.overflowFirst >= 0
          /\ hist.overflowFirst <= 10
          /\ outcome.overflowPercentage = hist.overflowFirst
          /\ ~req.forceCondense
          /\ calls.overflow = 1
    /\ (calls.overflow >= 2 \/ req.forceCondense) => outcome.type # "overflow_choice"

C24_Witness ==
    /\ pc = "condense_raster"
    /\ attempt = 2
    /\ calls.overflow = 2
    /\ hist.overflowFirst = 10
    /\ req.forceCondense
    /\ outcome = NoEvent

-----------------------------------------------------------------------------
(* The audit log.  logOperation and logConversation append an entry to     *)
(* their JSON file: read the file (an unreadable or invalid file reads as  *)
(* the empty list), push, keep the last entries, write.  The write may     *)
(* fail, and the files may be damaged from outside between two calls.      *)
(* The run that logs gets back from the call only whether it raised.       *)

LogKinds == {"logOperation", "logConversation"}

\* a log file: whether it can be read and parsed, and how many entries it holds
LogFiles == [readable : BOOLEAN, entries : 0..MaxLogEntries]

\* readLogFile(filePath).length: [] when the file is missing or invalid
readLogFile(file) == IF file.readable THEN file.entries ELSE 0

\* mutant: the logger without its try/catch
logEntry_Uncaught(file, writeOk) ==
    [raised |-> ~writeOk,
     file |-> IF writeOk
              THEN [readable |-> TRUE,
                    entries |-> IF readLogFile(file) < MaxLogEntries
                                THEN readLogFile(file) + 1 ELSE MaxLogEntries]
              ELSE file]

\* the body of logOperation / logConversation: existingLogs.push(logEntry);
\* slice(-N); writeLogFile; catch (error) { console.error(...) }
logEntry(file, writeOk) ==
    [raised |-> FALSE,
     file |-> IF writeOk
              THEN [readable |-> TRUE,
                    entries |-> IF readLogFile(file) < MaxLogEntries
                                THEN readLogFile(file) + 1 ELSE MaxLogEntries]
              ELSE file]

LogInit ==
    /\ LoopIdle
    /\ fnInput = NoInput
    /\ fnResult = NoOutput
    /\ tmp = [now |-> 0,
              files |-> [k \in LogKinds |-> [readable |-> FALSE, entries |-> 0]]]

\* await logOperation({...}) | await logConversation({...})
LogCall ==
    \E k \in LogKinds, writeOk \in BOOLEAN :
        /\ fnInput' = [fn |-> k, writeOk |-> writeOk, before |-> tmp.files[k]]
        /\ fnResult' = [fn |-> k, raised |-> logEntry(tmp.files[k], writeOk).raised]
        /\ tmp' = [tmp EXCEPT !.files[k] = logEntry(tmp.files[k], writeOk).file]
        /\ UNCHANGED loopVars

\* the log directory is removed or a file is overwritten with something else
DamageLog ==
    \E k \in LogKinds :
        /\ tmp.files[k].readable
        /\ tmp' = [tmp EXCEPT !.files[k].readable = FALSE]
        /\ UNCHANGED <<loopVars, fnInput, fnResult>>

LogSpec == LogInit /\ [][LogCall \/ DamageLog]_vars

-----------------------------------------------------------------------------
(* Abandoned requests.  The client may go away at any moment of a run.     *)
(* The handler never looks at request.signal and the stream has no cancel  *)
(* callback, so the run learns of it only if the platform has cancelled    *)
(* the stream and controller.enqueue raises in the next sendSSE; whether   *)
(* it does is the platform's choice.                                       *)

\* oracle and compile calls issued so far
OracleAndCompileCalls ==
    calls.draft + calls.fix + calls.expand + calls.condense + calls.compile

\* a valid initial request
AbandonInit ==
    /\ Init
    /\ req = [resume |-> DocOf(1), originalResume |-> EmptyDoc, isFollowUp |-> FALSE,
              forceCondense |-> FALSE, jobOffer |-> "job", followUpInstruction |-> "",
              apiKey |-> "key", provider |-> "openai", model |-> "gpt-5-mini"]

\* the client disconnects
Abandon ==
    /\ pc # "done"
    /\ ~hist.abandoned
    /\ hist' = [hist EXCEPT !.abandoned = TRUE, !.callsAtAbandon = OracleAndCompileCalls]
    /\ UNCHANGED <<pc, req, currentLatex, currentSummary, pageCount, attempt, lastPdfPath,
                   compileResult, compileFixAttempt, latexBeforeFixLoop, pageFill,
                   expandedLatex, expandedResult, outcome, calls>>
    /\ UNCHANGED fnVars

\* sendSSE on a cancelled stream: controller.enqueue raises, and so does the
\* sendSSE of the catch block; start() rejects and no event is delivered
StreamClosed ==
    /\ pc # "done"
    /\ hist.abandoned
    /\ pc' = "done"
    /\ UNCHANGED <<req, currentLatex, currentSummary, pageCount, attempt, lastPdfPath,
                   compileResult, compileFixAttempt, latexBeforeFixLoop, pageFill,
                   expandedLatex, expandedResult, outcome, calls, hist>>
    /\ UNCHANGED fnVars

AbandonSpec == AbandonInit /\ [][Next \/ Abandon \/ StreamClosed]_vars

\* C26: once the client has abandoned the request, the run issues no oracle
\* call and no compile call beyond the one that was in flight: after the next
\* checkpoint between states no further call is made.
C26_NoCallsAfterAbandonment ==
    hist.abandoned => OracleAndCompileCalls <= hist.callsAtAbandon + 1

-----------------------------------------------------------------------------
(* The page: handleSubmit starts the compile of the pristine original for  *)
(* the preview without awaiting it and then issues the modify request.     *)
(* The two fetches resolve in any order.  tmp holds the state of the page: *)
(* the form, the position of the two requests, the terminal event of the   *)
(* main run and the React state error, originalPdfUrl, isLoading.          *)

\* setError(null)
NoPageError == ""

\* mutant: the catch of compileOriginalPdf reports the failure to the user
previewFailure_Reported(error) == "Failed to compile original PDF for preview"

\* catch { console.warn(...) } and a response that is not ok: error is left alone
previewFailure(error) == error

\* what the callbacks of processSSEStream and the catch of handleSubmit make
\* of the end of the main request
pageErrorOf(event) ==
    CASE event.type = "complete" /\ event.pageCount > 1 -> "Warning: Resume is still several pages"
      [] event.type = "error" -> event.message
      [] event.type = "rejected" -> event.message
      [] OTHER -> NoPageError

\* how the modify request can end, as the page sees it
MainEvents ==
    {[type |-> "complete", pageCount |-> p, message |-> ""] : p \in 0..MaxPages}
    \cup {[type |-> "overflow_choice", pageCount |-> p, message |-> ""] : p \in 2..MaxPages}
    \cup {[type |-> t, pageCount |-> 0, message |-> m] :
            t \in {"error", "rejected"}, m \in OracleErrors}

PreviewInit ==
    /\ LoopIdle
    /\ fnInput \in [fn : {"handleSubmit"}, resume : BOOLEAN, jobOffer : BOOLEAN,
                    apiKey : BOOLEAN, provider : {"openai", "google"}]
    /\ fnResult = NoOutput
    /\ tmp = [now |-> 0, main |-> "idle", preview |-> "idle",
              event |-> [type |-> "none", pageCount |-> 0, message |-> ""],
              error |-> NoPageError, originalPdfUrl |-> FALSE, isLoading |-> FALSE,
              loadingAttempt |-> 0]

\* handleSubmit up to the fetch of /api/modify-resume
HandleSubmit ==
    /\ tmp.main = "idle"
    /\ tmp' =
         IF ~fnInput.resume
         THEN [tmp EXCEPT !.main = "refused", !.error = "Please provide your LaTeX resume"]
         ELSE IF ~fnInput.jobOffer
         THEN [tmp EXCEPT !.main = "refused",
                          !.error = "Please provide the job offer description"]
         ELSE IF ~fnInput.apiKey
         THEN [tmp EXCEPT !.main = "refused",
                          !.error = IF fnInput.provider = "openai"
                                    THEN "Please provide your OpenAI API key"
                                    ELSE "Please provide your Google API key"]
         ELSE [tmp EXCEPT !.main = "fetching", !.preview = "fetching",
                          !.error = NoPageError, !.isLoading = TRUE]
    /\ UNCHANGED <<loopVars, fnInput, fnResult>>

\* compileOriginalPdf settles: a PDF, a response that is not ok (status 400,
\* 422 or 500 of the compile-latex route), or a rejection
PreviewSettles ==
    /\ tmp.preview = "fetching"
    /\ \/ tmp' = [tmp EXCEPT !.preview = "ok", !.originalPdfUrl = TRUE]
       \/ \E how \in {"400", "422", "500", "rejected"} :
            tmp' = [tmp EXCEPT !.preview = how, !.error = previewFailure(@)]
    /\ UNCHANGED <<loopVars, fnInput, fnResult>>

\* the main request goes on: an 'attempt' event (setLoadingAttempt), or its
\* end: processSSEStream calls back, or the fetch rejects; finally
\* setIsLoading(false), setLoadingAttempt(null)
MainSettles ==
    /\ tmp.main = "fetching"
    /\ \/ /\ tmp.loadingAttempt < MAX_RETRY_ATTEMPTS
          /\ tmp' = [tmp EXCEPT !.loadingAttempt = @ + 1]
       \/ \E event \in MainEvents :
            tmp' = [tmp EXCEPT !.main = "done", !.event = event,
                               !.error = pageErrorOf(event), !.isLoading = FALSE,
                               !.loadingAttempt = 0]
    /\ UNCHANGED <<loopVars, fnInput, fnResult>>

PreviewSpec == PreviewInit /\ [][HandleSubmit \/ PreviewSettles \/ MainSettles]_vars

(* C27: the preview compile is started without being awaited: the modify   *)
(* request is in flight whether or not the preview has settled, and        *)
(* whatever the preview does and whenever it does it, the error state of   *)
(* the page and the outcome of the main run are those of the main run      *)
(* alone.                                                                  *)
C27_PreviewNeverAffectsMainRun ==
    /\ tmp.preview # "idle" => tmp.main \in {"fetching", "done"}
    /\ tmp.main = "fetching" => tmp.error = NoPageError /\ tmp.event.type = "none"
    /\ tmp.main = "done" => tmp.error = pageErrorOf(tmp.event) /\ ~tmp.isLoading
    /\ tmp.originalPdfUrl <=> tmp.preview = "ok"

C27_Witness ==
    /\ tmp.main = "done"
    /\ tmp.event.type = "complete"
    /\ tmp.event.pageCount = 1
    /\ tmp.preview = "rejected"
    /\ tmp.error = NoPageError
    /\ ~tmp.originalPdfUrl

-----------------------------------------------------------------------------
(* The reference document *)

\* C28: the reference original document (originalResume if supplied, else the
\* input resume) is fixed by the request and never changes: every compile-fix
\* request of the run is given that document, whatever fix, condensation or
\* expansion rewrite has replaced the working document.
C28_FixRequestsGetTheReference ==
    /\ [][req' = req]_vars
    /\ [](calls.fix > 0 =>
            hist.fixReference = IF req.originalResume = EmptyDoc THEN req.resume
                                                                 ELSE req.originalResume)

\* two fix requests of outer attempt 2, after a condensation and a fix rewrite
C28_Witness ==
    /\ calls.fix >= 2
    /\ calls.condense = 1
    /\ attempt = 2
    /\ compileFixAttempt = 2
    /\ latexBeforeFixLoop \notin {req.resume, req.originalResume}
    /\ currentLatex \notin {req.resume, req.originalResume}
    /\ req.originalResume # EmptyDoc
    /\ hist.fixReference = req.originalResume

-----------------------------------------------------------------------------
(* Underflow evaluation and the outer attempt *)

\* C29: underflow evaluation happens only on the first outer attempt: when the
\* working document measures 1 page on outer attempt 2 or 3, the run goes to
\* the complete outcome with pageCount = 1 without any page-fill measurement,
\* rasterization or oracle call, so that a failure of the page-fill tool
\* cannot turn that run into an error outcome.
C29_NoPageFillAfterFirstAttempt ==
    (hist.onePage /\ attempt >= 2) =>
        /\ calls.pagefill = hist.callsAtOnePage.pagefill
        /\ calls.raster = hist.callsAtOnePage.raster
        /\ calls.draft + calls.fix + calls.expand + calls.condense =
              hist.callsAtOnePage.draft + hist.callsAtOnePage.fix
                + hist.callsAtOnePage.expand + hist.callsAtOnePage.condense
        /\ outcome.type # "error"
        /\ pc = "done" => outcome.type = "complete" /\ outcome.pageCount = 1

-----------------------------------------------------------------------------
(* The page-number filter of analyzePageFill *)

\* C30: analyzePageFill excludes a word from the content-bottom computation
\* if and only if all three hold: its bottom edge is in the bottom 10% of the
\* page, it lies horizontally within the middle 40% of the page width, and
\* its text matches a page-number pattern (1-2 digits, "page N", "N / M"); a
\* word failing any one of the three counts toward contentBottom, which is
\* the lowest bottom edge of the words that count (0 when none does).
C30_FilterNeedsAllThree ==
    (FillMeasured /\ fnInput.stdout.page) =>
        LET page == fnInput.stdout
            inBottomTenth(w) == 10 * (page.height - w.yMax) < page.height
            inMiddle(w) == /\ 10 * w.xMin > 3 * page.width
                           /\ 10 * (page.width - w.xMax) > 3 * page.width
            excluded == {i \in 1..Len(page.words) :
                            /\ inBottomTenth(page.words[i])
                            /\ inMiddle(page.words[i])
                            /\ isPageNumber(page.words[i].content)}
            counting == (1..Len(page.words)) \ excluded
            bottom == fnResult.value.contentBottom
        IN  /\ \A i \in counting : page.words[i].yMax <= bottom
            /\ bottom = 0 \/ \E i \in counting : page.words[i].yMax = bottom

\* "page 1" at the foot of the page is left out, the body word above it counts
C30_Witness ==
    /\ FillMeasured
    /\ fnInput.stdout.page
    /\ fnInput.stdout.height = MaxY - 2
    /\ Len(fnInput.stdout.words) = 2
    /\ fnInput.stdout.words[1].content = <<"x">>
    /\ fnInput.stdout.words[1].yMax = MaxY - 6
    /\ fnInput.stdout.words[2] = [xMin |-> 4, xMax |-> 6, yMax |-> MaxY - 2,
                                  content |-> <<"page", "s", "d">>]
    /\ fnResult.value.contentBottom = MaxY - 6

-----------------------------------------------------------------------------
(* The page element that cannot be read *)

\* C31: when the page-dimension header of the bounding-box dump cannot be
\* parsed, analyzePageFill reports pageHeight = 792, blankSpace = 0 and
\* blankPercentage = 0, and consequently the loop makes no expansion request
\* for that page, on whichever outer attempt it was measured.
C31_UnreadableHeaderMeansFull ==
    (FillMeasured /\ ~fnInput.stdout.page) =>
        /\ fnResult.value.pageHeight = 792
        /\ fnResult.value.blankSpace = 0
        /\ fnResult.value.blankPercentage = 0
        /\ \A att \in 1..MAX_RETRY_ATTEMPTS :
              ~ShouldExpand(fnResult.value.blankPercentage, att)

C31_Witness ==
    /\ FillMeasured
    /\ ~fnInput.stdout.page
    /\ fnInput.stdout.words = <<>>
    /\ fnResult.value.contentBottom = 792
    /\ ~ShouldExpand(fnResult.value.blankPercentage, 1)

-----------------------------------------------------------------------------
(* The tolerant scan of extractLatexFromJson *)

\* C32: in the tolerant scan a backslash always consumes the following
\* character (another backslash included), and the captured value ends at the
\* first unescaped quote that is followed, after optional whitespace, by a
\* comma, a closing brace or the end of the text; an unescaped quote followed
\* by anything else is kept as content, and without a terminator the value
\* runs to the end of the text.  The captured value is returned, unescaped,
\* only if it then contains \documentclass.
C32_ScanEndsAtTerminatorQuote ==
    LET cleaned == stripJsonFence(fnInput.response)
        spacedAt == indexOf(cleaned, <<Q, "latex", Q, ":", " ", Q>>)
        tightAt == indexOf(cleaned, <<Q, "latex", Q, ":", Q>>)
        start == IF spacedAt # 0 THEN spacedAt + 6 ELSE tightAt + 5
        size == Len(cleaned)
        \* the backslashes that stand immediately before position j
        run(j) == CHOOSE k \in 0..(j - start) :
                      /\ \A m \in (j - k)..(j - 1) : cleaned[m] = BS
                      /\ j - k = start \/ cleaned[j - k - 1] # BS
        consumed(j) == run(j) % 2 = 1
        terminates(j) ==
            /\ cleaned[j] = Q
            /\ ~consumed(j)
            /\ \/ \A m \in (j + 1)..size : cleaned[m] \in {" ", NL}
               \/ \E m \in (j + 1)..size :
                     /\ cleaned[m] \in {",", "}"}
                     /\ \A w \in (j + 1)..(m - 1) : cleaned[w] \in {" ", NL}
        ends == {j \in start..size : terminates(j)}
        end == IF ends = {} THEN size + 1
               ELSE CHOOSE j \in ends : \A k \in ends : j <= k
        captured == SubSeq(cleaned, start, end - 1)
        strict == JsonParseString(captured)
        returned == extractLatexFromJson(cleaned)
    IN  (Decoded /\ (spacedAt # 0 \/ tightAt # 0)) =>
            /\ returned.found =>
                  /\ includes(returned.latex, StartMarker)
                  /\ returned.latex =
                        IF strict.ok /\ includes(strict.value, StartMarker)
                        THEN strict.value
                        ELSE unescapeJsonString(captured)
            /\ (returned.found /\ ~strictYields(cleaned)) =>
                  fnResult.value.latex = returned.latex

\* the document's own quote, followed by the closing quote, stayed in the value
C32_Witness ==
    /\ Decoded
    /\ fnInput.shape = "unescaped"
    /\ fnInput.document = <<BS, "documentclass", Q>>
    /\ ~strictYields(stripJsonFence(fnInput.response))
    /\ fnResult.value.latex = fnInput.document

-----------------------------------------------------------------------------
(* Code fences around a reply *)

\* C33: for every raw reply wrapped in a code fence (an opening fence with or
\* without a json or latex language tag, and a closing fence), the document
\* the decoder returns contains neither the fence markers nor the language
\* tag, whichever decoding path produces it.
C33_NoFenceOrTagInDocument ==
    LET reply == trim(fnInput.response)
        wrapped == /\ Len(reply) >= 2
                   /\ reply[1] = FENCE
                   /\ reply[Len(reply)] = FENCE
                   /\ \A i \in 2..(Len(reply) - 1) : reply[i] # FENCE
        document == fnResult.value.latex
    IN  (Decoded /\ wrapped) =>
            /\ \A i \in 1..Len(document) : document[i] # FENCE
            /\ document # <<>> => document[1] \notin {"json", "latex"}

-----------------------------------------------------------------------------
(* The summary of a decoded reply *)

\* C34: every complete outcome and every awaiting-choice outcome carries a
\* non-empty summary string, for every oracle reply the decoder can receive
\* (strict JSON, truncated JSON with or without a summary field, raw text):
\* the summary of the payload is the decoder's (currentSummary =
\* parsed.summary), so the decoder returns a non-empty summary for every reply.
C34_SummaryNeverEmpty ==
    Decoded => fnResult.value.summary # <<>>

-----------------------------------------------------------------------------
(* Termination and call budgets.  Every external call returns or fails,    *)
(* so a run whose next step is enabled takes it.  The provider only        *)
(* selects the client the calls go through: the runs of one provider (and  *)
(* the requests that name none) are followed.                              *)

FairInit ==
    /\ Init
    /\ req.provider \in {"", "openai"}

FairSpec == FairInit /\ [][Next]_vars /\ WF_vars(Next)

\* C35: every run terminates and stays within fixed call budgets: at most 9
\* oracle calls (1 drafting, at most 2 fix calls in each of at most 3 outer
\* attempts, at most 2 condensation calls, and an expansion call only in a
\* run that makes no condensation call) and at most 9 compile calls, provided
\* each external call returns or fails.
C35_TerminatesWithinBudgets ==
    /\ <>(pc = "done")
    /\ [](/\ calls.draft <= 1
          /\ attempt <= 3
          /\ compileFixAttempt <= 2
          /\ calls.fix <= 2 * attempt
          /\ calls.condense <= 2
          /\ calls.expand <= 1
          /\ calls.expand = 1 => calls.condense = 0
          /\ calls.draft + calls.fix + calls.condense + calls.expand <= 9
          /\ calls.compile <= 9)

\* a run that spent the whole budget: nine oracle calls and nine compiles
C35_Witness ==
    /\ pc = "done"
    /\ calls.draft = 1
    /\ calls.fix = 6
    /\ calls.condense = 2
    /\ calls.compile = 9
    /\ attempt = 3

-----------------------------------------------------------------------------
(* The terminal event *)

\* C36: every run emits exactly one terminal event (complete, error or
\* overflow_choice), the stream is closed right after it, and no status,
\* attempt, compiling or second terminal event is emitted after the terminal
\* event, on every path including failures of external tools: a run reaches
\* the closed stream, the terminal event is sent in the step that closes it,
\* and no step of the handler follows.
C36_OneTerminalEventThenClosed ==
    /\ <>(pc = "done")
    /\ []((outcome # NoEvent) <=> (pc = "done"))
    /\ [](pc = "done" =>
            /\ outcome.type \in {"complete", "error", "overflow_choice"}
            /\ ~ENABLED Next)
    /\ [][outcome # NoEvent => outcome' = outcome]_vars

\* the stream closed on the error event of a measurement that failed
C36_Witness ==
    /\ pc = "done"
    /\ outcome.type = "error"
    /\ hist.toolFailed = "pagefill"
    /\ calls.compile >= 1
    /\ attempt = 2

-----------------------------------------------------------------------------
(* The document of a payload and the compile behind it *)

\* C37: in every complete outcome with pageCount >= 1 and in every
\* awaiting-choice outcome, the document in the payload is exactly the
\* document that was passed to a successful compile whose measured page
\* count equals the payload's pageCount; no document that was never compiled
\* and measured is returned with a positive page count.
C37_PayloadDocumentWasCompiledAndMeasured ==
    (outcome.type = "overflow_choice"
        \/ (outcome.type = "complete" /\ outcome.pageCount >= 1)) =>
        \/ /\ compileResult.success
           /\ compileResult.pdf.src = outcome.latex.id
           /\ compileResult.pdf.pages = outcome.pageCount
           /\ hist.measured >= 1
           /\ hist.lastMeasured = outcome.pageCount
        \/ /\ expandedResult.success
           /\ expandedResult.pdf.src = outcome.latex.id
           /\ expandedResult.pdf.pages = outcome.pageCount
           /\ hist.expansion \in {"accepted", "save_failed"}
           /\ hist.expandedPages = outcome.pageCount

\* a fix rewrite compiled on the last attempt and was returned with its two pages
C37_Witness ==
    /\ outcome.type = "complete"
    /\ outcome.pageCount = 2
    /\ outcome.attempts = 3
    /\ compileFixAttempt = 1
    /\ outcome.latex # latexBeforeFixLoop
    /\ outcome.latex.id = compileResult.pdf.src
    /\ calls.condense = 2

-----------------------------------------------------------------------------
(* The artifact reference of a payload *)

\* C38: in every complete or awaiting-choice payload with pageCount >= 1, the
\* artifact reference (pdfPath) is the saved PDF compiled from the document in
\* the same payload, on every path including a failure to save the expanded
\* PDF; in a payload with pageCount = 0 the artifact reference is empty.
C38_ArtifactOfPayloadDocument ==
    outcome.type \in {"complete", "overflow_choice"} =>
        IF outcome.pageCount >= 1
        THEN /\ outcome.pdfPath # NoPath
             /\ outcome.pdfPath.src = outcome.latex.id
        ELSE outcome.pdfPath = NoPath

-----------------------------------------------------------------------------
(* A condensation that does not compile *)

\* C39: once some outer attempt of a run has ended with a successful compile
\* (its PDF was saved and measured), the run never ends with a complete
\* outcome of pageCount = 0: a later condensation rewrite that does not
\* compile and cannot be fixed does not make the run return a non-compiling
\* document.
C39_NoCompileFailureAfterACompiledAttempt ==
    (hist.measured >= 1 /\ calls.condense >= 1 /\ outcome.type = "complete") =>
        outcome.pageCount # 0

-----------------------------------------------------------------------------
(* The completion placed after the retry loop *)

\* C40: the completion code placed after the retry loop (the
\* complete_fallback path) is unreachable: every iteration of the loop with
\* attempt = MAX_RETRY_ATTEMPTS returns from inside the loop body, so the loop
\* condition is never evaluated with attempt = 3.  The condition is evaluated
\* after a condensation reply was adopted: a condensation is requested on
\* attempts 1 and 2 only, and the step that receives its reply either goes
\* back to the head of the loop or ends the run with the error event.
C40_FallbackCompletionUnreachable ==
    /\ [](pc \in {"attempt", "condense_raster", "condense_oracle"} => attempt <= 2)
    /\ [][pc = "condense_oracle" =>
            \/ pc' = "attempt" /\ outcome' = NoEvent
            \/ pc' = "done" /\ outcome'.type = "error"]_vars

\* the third iteration returned from the loop body with two pages
C40_Witness ==
    /\ pc = "done"
    /\ attempt = 3
    /\ calls.condense = 2
    /\ calls.overflow = 2
    /\ outcome.type = "complete"
    /\ outcome.pageCount = 2
    /\ hist.lastMeasured = 2

====
